---------------------------- MODULE Spec2Model ----------------------------
(***************************************************************************)
(* A model of the ULTRABUILD engines: the deployment dispatcher            *)
(* (lib/deployers/deployment-engine.ts), the monetization ledger, the      *)
(* project generator, the self healer, the code generator and the Manus    *)
(* integration (lib/core/manus-integration.ts).                            *)
(*                                                                         *)
(* Every engine is a process-wide singleton with its own private fields;   *)
(* the engines share no state.  A request handler runs to completion       *)
(* except where it awaits; each action below is one such await-free        *)
(* segment of a handler.                                                   *)
(*                                                                         *)
(* Strings are modelled as sequences of fragments: a template literal      *)
(* `${a}: ${b}` is the sequence of its parts, and "s contains m" is        *)
(* membership of the fragment m.  Date.now() values (timestamp, duration)  *)
(* are not modelled.  Generated ids (Date.now() plus nine random base-36   *)
(* digits) are modelled as fresh.                                          *)
(*                                                                         *)
(* For each engine, xcalls holds the calls in flight, xlast the call that  *)
(* ended last, xseq counts the calls made, and the history variable xins   *)
(* lists the keys set into the engine's store, in order.  For the ledger,  *)
(* the history variable lsold records, per template id, the purchases      *)
(* made since the id was last published.                                   *)
(***************************************************************************)
EXTENDS Integers, Sequences, FiniteSets, TLC

VARIABLES
    \* DeploymentEngine
    vercelToken, githubToken, deployments, dcalls, dseq, dlast, dins,
    \* MonetizationEngine
    templates, revenue, lseq, lastOp, lsold,
    \* ULTRABUILDEngine
    manusApiUrl, manusApiKey, generatedProjects, gcalls, gseq, glast, gins,
    \* SelfHealer
    healingHistory, hcalls, hseq, hlast, hins,
    \* CodeGenerator
    generatedCode, ccalls, cseq, clast, cins,
    \* ManusIntegration
    apiUrl, apiKey, mcalls, mseq, mlast

dvars == <<vercelToken, githubToken, deployments, dcalls, dseq, dlast, dins>>
lvars == <<templates, revenue, lseq, lastOp, lsold>>
gvars == <<manusApiUrl, manusApiKey, generatedProjects, gcalls, gseq, glast, gins>>
hvars == <<healingHistory, hcalls, hseq, hlast, hins>>
cvars == <<generatedCode, ccalls, cseq, clast, cins>>
mvars == <<apiUrl, apiKey, mcalls, mseq, mlast>>
vars  == <<dvars, lvars, gvars, hvars, cvars, mvars>>

-----------------------------------------------------------------------------
(* Bounds of the exploration.                                              *)

\* the capacity of the deployment store (5000 in the source), scaled down
maxDeployments == 1
\* the number of deploy calls explored
MaxDeploys == 2
\* the number of ledger operations explored
MaxLedgerOps == 4
\* the capacity of the project store (10000 in the source), scaled down
maxProjects == 1
\* the number of generateProject calls explored
MaxGenerates == 2
\* the largest requirement.features.length explored with the tech-stack selection
MaxFeatures == 17
\* the number of generateProject calls explored one after another with it
MaxSelects == 1
\* the largest number of source files explored with calculateConfidence
MaxSourceFiles == 8
\* the capacity of the healing history (10000 in the source), scaled down
maxHistory == 1
\* the number of healCode calls explored
MaxHeals == 2
\* the number of healCode calls explored one after another with the
\* validation of the healed code
MaxValidates == 1
\* the number of healCode calls explored one after another with the scanner
MaxScans == 1
\* the capacity of the generated-code store (10000 in the source), scaled down
maxGenerations == 1
\* the number of generateProjectCode calls explored
MaxCodeGens == 2
\* the number of calls of the Manus integration explored
MaxManusCalls == 2

-----------------------------------------------------------------------------
(* Helpers                                                                 *)

None     == <<"none", 0>>
Ok       == "ok"
ErrMsgs  == {"ECONNRESET"}
Outcomes == {Ok} \cup ErrMsgs

Contains(logs, frag) == \E i \in DOMAIN logs : logs[i] = frag

\* Map.set(key, val): an existing key keeps its position, a new key is last
MapSet(m, key, val) ==
    IF \E i \in DOMAIN m : m[i].key = key
    THEN [i \in DOMAIN m |-> IF m[i].key = key THEN [key |-> key, val |-> val] ELSE m[i]]
    ELSE Append(m, [key |-> key, val |-> val])

MapHas(m, key) == \E i \in DOMAIN m : m[i].key = key
MapGet(m, key) == m[CHOOSE i \in DOMAIN m : m[i].key = key].val
MapKeys(m)     == {m[i].key : i \in DOMAIN m}

\* a bug the capacity check could have: `>=` for `>`
EvictAtCapacity(m, max) == IF Len(m) >= max THEN Tail(m) ELSE m

\* a bug the eviction could have: the key inserted last is deleted
EvictNewest(m, max) == IF Len(m) > max THEN SubSeq(m, 1, Len(m) - 1) ELSE m

\* if (map.size > max) map.delete(map.keys().next().value)
EvictOldest(m, max) == IF Len(m) > max THEN Tail(m) ELSE m

\* the insert without the capacity check
StoreSetOnly(m, key, val, max) == MapSet(m, key, val)

\* set followed by the capacity check, as every store does it
StoreInsert(m, key, val, max) == EvictOldest(MapSet(m, key, val), max)

-----------------------------------------------------------------------------
(* DeploymentEngine  (lib/deployers/deployment-engine.ts)                  *)

Targets        == {"vercel", "github", "docker", "aws"}
\* a target value outside the DeploymentTarget union
UnknownTarget  == "ftp"
UnknownTargetMsg == "Unknown deployment target: ftp"

ExtId       == <<"ext", 1>>
DepId(n)    == <<"dep", n>>

\* the value of `result` while no result exists yet
NoResult == [success |-> FALSE, url |-> "none", deploymentId |-> None,
             logs |-> <<"(pending)">>]

\* `${name} token not configured`
NotConfigured(name) ==
    [success |-> FALSE, url |-> "none", deploymentId |-> None,
     logs |-> <<name, " token ", "not configured">>]

\* a bug a catch block could have: the exception's message is dropped
TargetFailedLogsNoMessage(name, m) == <<name, " deployment failed">>

\* the logs of a target procedure's catch block:
\* `${name} deployment failed: ${message}`
TargetFailedLogs(name, m) == <<name, " deployment failed: ", m>>

TargetFailed(name, m) ==
    [success |-> FALSE, url |-> "none", deploymentId |-> None,
     logs |-> TargetFailedLogs(name, m)]

VercelSuccess ==
    [success |-> TRUE, url |-> "https://${response.data.url}", deploymentId |-> ExtId,
     logs |-> <<"Deployed to ", "https://${response.data.url}">>]

GitHubSuccess ==
    [success |-> TRUE, url |-> "response.data.html_url", deploymentId |-> ExtId,
     logs |-> <<"Repository created at ", "response.data.html_url">>]

DockerSuccess ==
    [success |-> TRUE, url |-> "http://localhost:3000", deploymentId |-> ExtId,
     logs |-> <<"Docker container running: ", "containerId">>]

AWSSuccess ==
    [success |-> TRUE, url |-> "https://your-app.elasticbeanstalk.com",
     deploymentId |-> None,
     logs |-> <<"AWS deployment configured. Use 'eb create' to deploy.">>]

\* the catch block of deploy itself
DeployCatch(m) ==
    [success |-> FALSE, url |-> "none", deploymentId |-> None, logs |-> <<m>>]

\* A target procedure either returned (its promise is settled and deploy's
\* await is pending) or is suspended at its axios.post.
Settled(res, fx, exc) == [pc |-> "settle", res |-> res, fx |-> fx, exc |-> exc]
Awaiting(fx)          == [pc |-> "http", res |-> NoResult, fx |-> fx, exc |-> "none"]

\* a bug deployToVercel could have: the files are written before the token check
deployToVercelWriteFirst(ofs) ==
    IF ofs # Ok THEN Settled(TargetFailed("Vercel", ofs), <<"fs">>, ofs)
    ELSE IF vercelToken = "" THEN Settled(NotConfigured("Vercel"), <<"fs">>, "none")
    ELSE Awaiting(<<"fs", "http">>)

\* deployToVercel up to its first await; ofs is the outcome of createProjectFiles
deployToVercel(ofs) ==
    IF vercelToken = "" THEN Settled(NotConfigured("Vercel"), <<>>, "none")
    ELSE IF ofs # Ok THEN Settled(TargetFailed("Vercel", ofs), <<"fs">>, ofs)
    ELSE Awaiting(<<"fs", "http">>)

\* deployToGitHub up to its first await; ogit is the outcome of git init/add/commit
deployToGitHub(ofs, ogit) ==
    IF githubToken = "" THEN Settled(NotConfigured("GitHub"), <<>>, "none")
    ELSE IF ofs # Ok THEN Settled(TargetFailed("GitHub", ofs), <<"fs">>, ofs)
    ELSE IF ogit # Ok THEN Settled(TargetFailed("GitHub", ogit), <<"fs", "git">>, ogit)
    ELSE Awaiting(<<"fs", "git", "http">>)

\* deployToDocker has no await: files, docker build, docker run
deployToDocker(ofs, obuild, orun) ==
    IF ofs # Ok THEN Settled(TargetFailed("Docker", ofs), <<"fs">>, ofs)
    ELSE IF obuild # Ok
         THEN Settled(TargetFailed("Docker", obuild), <<"fs", "docker build">>, obuild)
    ELSE IF orun # Ok
         THEN Settled(TargetFailed("Docker", orun),
                      <<"fs", "docker build", "docker run">>, orun)
    ELSE Settled(DockerSuccess, <<"fs", "docker build", "docker run">>, "none")

\* a bug deployToAWS could have: a token check as in deployToVercel
deployToAWSChecked(ofs) ==
    IF vercelToken = "" THEN Settled(NotConfigured("AWS"), <<>>, "none")
    ELSE IF ofs # Ok THEN Settled(TargetFailed("AWS", ofs), <<"fs">>, ofs)
    ELSE Settled(AWSSuccess, <<"fs">>, "none")

\* deployToAWS only writes the files
deployToAWS(ofs) ==
    IF ofs # Ok THEN Settled(TargetFailed("AWS", ofs), <<"fs">>, ofs)
    ELSE Settled(AWSSuccess, <<"fs">>, "none")

\* the switch of deploy
Dispatch(target, o1, o2, o3) ==
    CASE target = "vercel" -> deployToVercel(o1)
      [] target = "github" -> deployToGitHub(o1, o2)
      [] target = "docker" -> deployToDocker(o1, o2, o3)
      [] target = "aws"    -> deployToAWS(o1)

\* calls in flight: a function from the call's sequence number to its record
NoCalls == [i \in {} |-> 0]
Put(calls, id, rec)  == [i \in DOMAIN calls \cup {id} |-> IF i = id THEN rec ELSE calls[i]]
Drop(calls, id)      == [i \in DOMAIN calls \ {id} |-> calls[i]]

\* this.emit(name, { deploymentId, ... }) by call n, after the external
\* effects fx of that call
Emitted(name, n, fx) == [name |-> name, id |-> DepId(n), at |-> Len(fx)]

\* the record of a call that has not happened
NoDeploy == [id |-> 0, target |-> "none", pc |-> "none", res |-> NoResult, fx |-> <<>>,
             exc |-> "none", evts |-> <<>>, ret |-> "none"]

\* deploy from its entry to its first suspension.  An unknown target throws
\* inside the try block; the catch block emits deployment-error and returns
\* the failure without touching the store.
DeployStart(target, o1, o2, o3) ==
    /\ dseq < MaxDeploys
    /\ dseq' = dseq + 1
    /\ IF target \in Targets
       THEN LET p == Dispatch(target, o1, o2, o3) IN
            /\ dcalls' = Put(dcalls, dseq + 1,
                  [id |-> dseq + 1, target |-> target, pc |-> p.pc, res |-> p.res,
                   fx |-> p.fx, exc |-> p.exc,
                   evts |-> <<Emitted("deployment-started", dseq + 1, <<>>)>>,
                   ret |-> "pending"])
            /\ UNCHANGED dlast
       ELSE /\ dlast' = [id |-> dseq + 1, target |-> target, pc |-> "done",
                         res |-> DeployCatch(UnknownTargetMsg), fx |-> <<>>,
                         exc |-> "none",
                         evts |-> <<Emitted("deployment-started", dseq + 1, <<>>),
                                    Emitted("deployment-error", dseq + 1, <<>>)>>,
                         ret |-> "returned"]
            /\ UNCHANGED dcalls
    /\ UNCHANGED <<vercelToken, githubToken, deployments, dins>>

\* the rest of a target procedure after its axios.post settled
AfterHttp(call, ohttp, opush) ==
    IF call.target = "vercel"
    THEN IF ohttp # Ok
         THEN Settled(TargetFailed("Vercel", ohttp), call.fx, ohttp)
         ELSE Settled(VercelSuccess, call.fx, "none")
    ELSE IF ohttp # Ok
         THEN Settled(TargetFailed("GitHub", ohttp), call.fx, ohttp)
         ELSE IF opush # Ok
              THEN Settled(TargetFailed("GitHub", opush), Append(call.fx, "git push"), opush)
              ELSE Settled(GitHubSuccess, Append(call.fx, "git push"), "none")

HttpSettles(c, ohttp, opush) ==
    /\ c \in DOMAIN dcalls
    /\ dcalls[c].pc = "http"
    /\ LET p == AfterHttp(dcalls[c], ohttp, opush) IN
       dcalls' = [dcalls EXCEPT ![c].pc = p.pc, ![c].res = p.res,
                                ![c].fx = p.fx, ![c].exc = p.exc]
    /\ UNCHANGED <<vercelToken, githubToken, deployments, dseq, dlast, dins>>

\* a bug the choice of the event could have: success whatever the result
ResultEventSuccess(res) == "deployment-success"

\* the event deploy emits after storing the result
ResultEvent(res) == IF res.success THEN "deployment-success" ELSE "deployment-failed"

\* a bug the store could have: the result's own deploymentId as the key
StoreDeploymentByResultId(id, res) ==
    StoreInsert(deployments,
                IF res.deploymentId # None THEN res.deploymentId ELSE DepId(id),
                res, maxDeployments)

\* this.deployments.set(deploymentId, result) and the capacity check
StoreDeployment(id, res) == StoreInsert(deployments, DepId(id), res, maxDeployments)

\* deploy after `await this.deployToX(config)`: store, evict, emit, return
DeployResume(c) ==
    /\ c \in DOMAIN dcalls
    /\ dcalls[c].pc = "settle"
    /\ deployments' = StoreDeployment(c, dcalls[c].res)
    /\ dins' = Append(dins, DepId(c))
    /\ dlast' = [dcalls[c] EXCEPT !.pc = "done", !.ret = "returned",
                                  !.evts = Append(@, Emitted(ResultEvent(dcalls[c].res),
                                                             c, dcalls[c].fx))]
    /\ dcalls' = Drop(dcalls, c)
    /\ UNCHANGED <<vercelToken, githubToken, dseq>>

\* getDeployment: this.deployments.get(deploymentId), undefined when absent
getDeployment(deploymentId) ==
    IF MapHas(deployments, deploymentId)
    THEN [found |-> TRUE, val |-> MapGet(deployments, deploymentId)]
    ELSE [found |-> FALSE, val |-> NoResult]

DeployInit ==
    /\ vercelToken \in {"", "vercel-token"}
    /\ githubToken \in {"", "github-token"}
    /\ deployments = <<>>
    /\ dcalls = NoCalls
    /\ dseq = 0
    /\ dlast = NoDeploy
    /\ dins = <<>>

-----------------------------------------------------------------------------
(* MonetizationEngine  (unnamed/part_000)                                  *)

TemplateIds == {"t1", "t2"}
\* an id that is never published
UnknownId   == "t9"
BuyerIds    == {"b1", "b2"}
\* Template.price and Template.downloads are unvalidated numbers
Prices      == {-5, 0, 3}
Downloads   == {0, 7}

NoTemplate == [id |-> "none", price |-> 0, downloads |-> 0]
\* the last ledger call: its arguments and its return value
NoOp == [n |-> 0, op |-> "none", id |-> "none", template |-> NoTemplate,
         buyer |-> "none", ret |-> FALSE]

\* a bug publishTemplate could have: an id already stored is not overwritten
PublishedIfAbsent(tpls, template) ==
    IF MapHas(tpls, template.id) THEN tpls ELSE MapSet(tpls, template.id, template)

\* a bug publishTemplate could have: the stored download count carried over
PublishedKeepDownloads(tpls, template) ==
    IF MapHas(tpls, template.id)
    THEN MapSet(tpls, template.id,
                [template EXCEPT !.downloads = MapGet(tpls, template.id).downloads])
    ELSE MapSet(tpls, template.id, template)

\* this.templates.set(template.id, template)
Published(tpls, template) == MapSet(tpls, template.id, template)

\* history: no purchase of an id since it was published with `downloads`
NotSold(downloads) == [k |-> 0, base |-> downloads, earned |-> 0, buyers |-> <<>>]

\* history: one more purchase of an id, by buyerId, that moved the revenue
\* counter by `gain`
Sold(h, buyerId, gain) ==
    [h EXCEPT !.k = @ + 1, !.earned = @ + gain, !.buyers = Append(@, buyerId)]

\* publishTemplate: templates.set(template.id, template); return true
publishTemplate(template) ==
    /\ lseq < MaxLedgerOps
    /\ lseq' = lseq + 1
    /\ templates' = Published(templates, template)
    /\ revenue' = revenue
    /\ lsold' = [lsold EXCEPT ![template.id] = NotSold(template.downloads)]
    /\ lastOp' = [n |-> lseq + 1, op |-> "publish", id |-> template.id,
                  template |-> template, buyer |-> "none", ret |-> TRUE]

\* the effect of a purchase on the stored template: template.downloads++
Purchased(template) == [template EXCEPT !.downloads = @ + 1]

\* a bug purchaseTemplate could have: `=` for `+=`
CreditAssign(rev, template) == template.price

\* a bug purchaseTemplate could have: a template bought before is not
\* credited again
CreditOnce(rev, template) ==
    IF template.downloads > 0 THEN rev ELSE rev + template.price

\* the effect of a purchase on the counter: this.revenue += template.price
Credit(rev, template) == rev + template.price

\* purchaseTemplate: no await between the lookup and the two updates
purchaseTemplate(templateId, buyerId) ==
    /\ lseq < MaxLedgerOps
    /\ lseq' = lseq + 1
    /\ IF ~MapHas(templates, templateId)
       THEN /\ UNCHANGED <<templates, revenue, lsold>>
            /\ lastOp' = [n |-> lseq + 1, op |-> "purchase", id |-> templateId,
                          template |-> NoTemplate, buyer |-> buyerId, ret |-> FALSE]
       ELSE LET template == MapGet(templates, templateId) IN
            /\ revenue' = Credit(revenue, template)
            /\ templates' = MapSet(templates, templateId, Purchased(template))
            /\ lsold' = [lsold EXCEPT ![templateId] =
                             Sold(@, buyerId, Credit(revenue, template) - revenue)]
            /\ lastOp' = [n |-> lseq + 1, op |-> "purchase", id |-> templateId,
                          template |-> NoTemplate, buyer |-> buyerId, ret |-> TRUE]

LedgerInit ==
    /\ templates = <<>>
    /\ revenue = 0
    /\ lseq = 0
    /\ lastOp = NoOp
    /\ lsold = [id \in TemplateIds |-> NotSold(0)]

-----------------------------------------------------------------------------
(* ULTRABUILDEngine  (unnamed/part_001)                                    *)

\* the value of an optional property that is not there
Undefined == <<"(undefined)">>

ProjectTypes == {"game", "website", "app", "ai-system", "business-software",
                 "data-tool", "security-tool", "api", "cli", "other"}

techStackTemplates ==
    [t \in ProjectTypes |->
       CASE t = "game" ->
              [frontend   |-> <<"Phaser 3", "Three.js", "Babylon.js">>,
               backend    |-> <<"Node.js", "Express">>,
               database   |-> <<"Supabase (free)", "Firebase (free)">>,
               deployment |-> <<"Vercel", "GitHub Pages">>,
               tools      |-> <<"Webpack", "Vite">>,
               libraries  |-> <<"Pixi.js", "Konva.js", "PlayCanvas">>]
         [] t = "website" ->
              [frontend   |-> <<"React 19", "Next.js 15", "Vue 3", "Svelte">>,
               backend    |-> <<"Node.js", "Express", "Fastify">>,
               database   |-> <<"Supabase (free)", "MongoDB (free)", "PostgreSQL (free)">>,
               deployment |-> <<"Vercel", "Netlify", "GitHub Pages">>,
               tools      |-> <<"Tailwind CSS 4", "Vite", "Webpack">>,
               libraries  |-> <<"shadcn/ui", "Radix UI", "Headless UI">>]
         [] t = "app" ->
              [frontend   |-> <<"React Native", "Flutter", "Expo">>,
               backend    |-> <<"Node.js", "Express", "Firebase">>,
               database   |-> <<"Supabase (free)", "Firebase (free)", "Realm">>,
               deployment |-> <<"Vercel", "Firebase", "AWS (free tier)">>,
               tools      |-> <<"Expo", "Android Studio", "Xcode">>,
               libraries  |-> <<"React Navigation", "Redux", "Zustand">>]
         [] t = "ai-system" ->
              [frontend   |-> <<"React", "Next.js", "Streamlit">>,
               backend    |-> <<"Node.js", "Python FastAPI", "Express">>,
               database   |-> <<"Supabase (free)", "Pinecone (free)", "Weaviate">>,
               deployment |-> <<"Vercel", "Hugging Face Spaces", "Railway (free)">>,
               tools      |-> <<"LangChain", "LlamaIndex", "Transformers.js">>,
               libraries  |-> <<"OpenAI SDK", "Anthropic SDK", "Together.ai SDK">>]
         [] t = "business-software" ->
              [frontend   |-> <<"React", "Vue", "Angular">>,
               backend    |-> <<"Node.js", "Express", "NestJS">>,
               database   |-> <<"Supabase (free)", "PostgreSQL (free)", "MySQL (free)">>,
               deployment |-> <<"Vercel", "Railway (free)", "Render (free)">>,
               tools      |-> <<"Tailwind", "Vite", "TypeScript">>,
               libraries  |-> <<"Tanstack Query", "Zod", "Prisma (free)">>]
         [] t = "data-tool" ->
              [frontend   |-> <<"React", "Plotly.js", "D3.js">>,
               backend    |-> <<"Node.js", "Python FastAPI", "Express">>,
               database   |-> <<"Supabase (free)", "DuckDB", "ClickHouse">>,
               deployment |-> <<"Vercel", "Hugging Face Spaces", "Railway">>,
               tools      |-> <<"Pandas", "NumPy", "Polars">>,
               libraries  |-> <<"Apache Arrow", "Recharts", "Visx">>]
         [] t = "security-tool" ->
              [frontend   |-> <<"React", "Vue">>,
               backend    |-> <<"Node.js", "Express", "Rust Actix">>,
               database   |-> <<"Supabase (free)", "PostgreSQL (free)">>,
               deployment |-> <<"Vercel", "Railway (free)", "Render (free)">>,
               tools      |-> <<"Helmet.js", "OWASP", "Snyk">>,
               libraries  |-> <<"Crypto-js", "jsonwebtoken", "bcrypt">>]
         [] t = "api" ->
              [frontend   |-> Undefined,
               backend    |-> <<"Node.js", "Express", "Fastify", "Hono">>,
               database   |-> <<"Supabase (free)", "MongoDB (free)", "PostgreSQL (free)">>,
               deployment |-> <<"Vercel", "Railway (free)", "Render (free)">>,
               tools      |-> <<"Swagger/OpenAPI", "Jest", "Vitest">>,
               libraries  |-> <<"tRPC", "GraphQL", "REST">>]
         [] t = "cli" ->
              [frontend   |-> Undefined,
               backend    |-> <<"Node.js", "Rust", "Go">>,
               database   |-> Undefined,
               deployment |-> <<"npm", "GitHub Releases">>,
               tools      |-> <<"Commander.js", "Yargs", "Clap">>,
               libraries  |-> <<"Chalk", "Inquirer", "Table">>]
         [] t = "other" ->
              [frontend   |-> <<"React", "Vue", "Svelte">>,
               backend    |-> <<"Node.js", "Python", "Go">>,
               database   |-> <<"Supabase (free)", "PostgreSQL (free)">>,
               deployment |-> <<"Vercel", "Railway (free)">>,
               tools      |-> <<"Vite", "Webpack">>,
               libraries  |-> <<"TypeScript", "ESLint", "Prettier">>]]

\* estimateComplexity with the thresholds taken as strict bounds
estimateComplexityStrict(featureCount) ==
    IF featureCount < 3 THEN "simple"
    ELSE IF featureCount < 8 THEN "medium"
    ELSE IF featureCount < 15 THEN "complex"
    ELSE "enterprise"

\* estimateComplexity, of requirement.features.length
estimateComplexity(featureCount) ==
    IF featureCount <= 3 THEN "simple"
    ELSE IF featureCount <= 8 THEN "medium"
    ELSE IF featureCount <= 15 THEN "complex"
    ELSE "enterprise"

\* the value of `analysis` when response.data is null
NullAnalysis == [src |-> "null", complexity |-> "(none)",
                 estimatedFiles |-> 0, estimatedLines |-> 0]

\* analyzeRequirement, "Fallback: Local analysis"
LocalAnalysis(req) ==
    [src |-> "local", complexity |-> estimateComplexity(req.features),
     estimatedFiles |-> req.features * 3 + 10,
     estimatedLines |-> req.features * 500 + 1000]

\* analyzeRequirement, the catch block
CatchAnalysis(req) ==
    [src |-> "catch", complexity |-> "medium",
     estimatedFiles |-> 20, estimatedLines |-> 5000]

\* response.data of the analysis request; its complexity property may be
\* missing (Undefined is modelled by the string "(undefined)")
ManusAnalysis(c) ==
    [src |-> "manus", complexity |-> c, estimatedFiles |-> 0, estimatedLines |-> 0]

\* x?.slice(0, n) without the truncation
SliceOptWhole(x, n) == x

\* x?.slice(0, n)
SliceOpt(x, n) ==
    IF x = Undefined THEN Undefined
    ELSE SubSeq(x, 1, IF Len(x) < n THEN Len(x) ELSE n)

\* The catalog is an object literal, so a property read with a name that is
\* not one of its keys goes on to Object.prototype: for these names the read
\* yields a function of Object.prototype, for any other name undefined.
InheritedKeys == {"constructor", "toString", "valueOf", "hasOwnProperty"}

\* a function of Object.prototype seen as a tech stack: it is truthy and it
\* has none of the six properties
PrototypeMember ==
    [frontend |-> Undefined, backend |-> Undefined, database |-> Undefined,
     deployment |-> Undefined, tools |-> Undefined, libraries |-> Undefined]

\* this.techStackTemplates[projectType] is not undefined (every value the
\* read can yield is an object or a function, so it is truthy)
CatalogHas(projectType) ==
    projectType \in DOMAIN techStackTemplates \cup InheritedKeys

\* this.techStackTemplates[projectType]
CatalogLookup(projectType) ==
    IF projectType \in DOMAIN techStackTemplates THEN techStackTemplates[projectType]
    ELSE IF projectType \in InheritedKeys THEN PrototypeMember
    ELSE Undefined

\* selectTechStack; the caller makes sure analysis is not null
selectTechStack(projectType, analysis) ==
    LET baseStack  == IF CatalogHas(projectType)
                      THEN CatalogLookup(projectType)
                      ELSE techStackTemplates["other"]
        complexity == IF analysis.complexity \in {"(undefined)", ""}
                      THEN "medium" ELSE analysis.complexity
    IN  IF complexity = "simple"
        THEN [frontend   |-> SliceOpt(baseStack.frontend, 1),
              backend    |-> SliceOpt(baseStack.backend, 1),
              database   |-> SliceOpt(baseStack.database, 1),
              deployment |-> SliceOpt(baseStack.deployment, 1),
              tools      |-> SliceOpt(baseStack.tools, 2),
              libraries  |-> Undefined]
        ELSE IF complexity = "enterprise"
        THEN [frontend   |-> baseStack.frontend,
              backend    |-> baseStack.backend,
              database   |-> baseStack.database,
              deployment |-> baseStack.deployment,
              tools      |-> baseStack.tools,
              libraries  |-> baseStack.libraries]
        ELSE baseStack

\* generateSourceFiles: the keys of the map, in insertion order
\* a bug generateSourceFiles could have: the default branch for every type
generateSourceFilesDefault(type) == <<"src/index.ts">>

generateSourceFiles(type) ==
    CASE type = "game"    -> <<"src/game.ts", "src/scenes/MainScene.ts">>
      [] type = "website" -> <<"src/App.tsx", "src/pages/Home.tsx">>
      [] type = "app"     -> <<"src/App.tsx", "src/screens/HomeScreen.tsx">>
      [] type = "api"     -> <<"src/server.ts", "src/routes/index.ts">>
      [] OTHER            -> <<"src/index.ts">>

\* a bug generateProjectFiles could have: no readme
generateProjectFilesNoReadme(type) ==
    <<"package.json", "tsconfig.json", ".gitignore">> \o generateSourceFiles(type)

\* generateProjectFiles: the keys of the map, in insertion order
generateProjectFiles(type) ==
    <<"package.json", "README.md", "tsconfig.json", ".gitignore">>
        \o generateSourceFiles(type)

Has(files, name) == \E i \in DOMAIN files : files[i] = name
Min(a, b) == IF a < b THEN a ELSE b

\* a bug calculateConfidence could have: the bonus from ten files on
calculateConfidenceFromTen(files) ==
    Min(100, 70 + (IF Len(files) >= 10 THEN 15 ELSE 0)
                + (IF Has(files, "README.md") THEN 5 ELSE 0)
                + (IF Has(files, "package.json") THEN 5 ELSE 0))

\* calculateConfidence, in hundredths
calculateConfidence(files) ==
    Min(100, 70 + (IF Len(files) > 10 THEN 15 ELSE 0)
                + (IF Has(files, "README.md") THEN 5 ELSE 0)
                + (IF Has(files, "package.json") THEN 5 ELSE 0))

ProjId(n) == <<"proj", n>>

NoProject == [id |-> None, type |-> "none", techStack |-> Undefined, files |-> <<>>,
              confidence |-> 0]

NoGenerate == [id |-> 0, req |-> [type |-> "none", features |-> 0], pc |-> "none",
               analysis |-> NullAnalysis, httpFailed |-> FALSE, project |-> NoProject,
               ret |-> "none"]

ManusConfigured == manusApiUrl # "" /\ manusApiKey # ""

\* generateProject from its entry to the first suspension, inside
\* analyzeRequirement: the request is sent when both credentials are set,
\* otherwise the local analysis is returned
GenerateStart(req) ==
    /\ gseq < MaxGenerates
    /\ gseq' = gseq + 1
    /\ gcalls' = Put(gcalls, gseq + 1,
          [NoGenerate EXCEPT !.id = gseq + 1, !.req = req, !.ret = "pending",
                             !.pc = IF ManusConfigured THEN "http" ELSE "analyzed",
                             !.analysis = IF ManusConfigured THEN NullAnalysis
                                          ELSE LocalAnalysis(req)])
    /\ UNCHANGED <<manusApiUrl, manusApiKey, generatedProjects, glast, gins>>

\* the analysis request fails (network error, timeout): the catch block
ManusFails(c) ==
    /\ c \in DOMAIN gcalls
    /\ gcalls[c].pc = "http"
    /\ gcalls' = [gcalls EXCEPT ![c].pc = "analyzed", ![c].httpFailed = TRUE,
                                ![c].analysis = CatchAnalysis(gcalls[c].req)]
    /\ UNCHANGED <<manusApiUrl, manusApiKey, generatedProjects, gseq, glast, gins>>

\* the analysis request answers: response.data is returned as it is
ManusAnswers(c, data) ==
    /\ c \in DOMAIN gcalls
    /\ gcalls[c].pc = "http"
    /\ gcalls' = [gcalls EXCEPT ![c].pc = "analyzed", ![c].analysis = data]
    /\ UNCHANGED <<manusApiUrl, manusApiKey, generatedProjects, gseq, glast, gins>>

\* after `await this.analyzeRequirement`: selectTechStack reads
\* analysis.complexity, which throws on a null analysis, and the catch block
\* of generateProject rethrows; otherwise generateProjectFiles is awaited
GenerateSelect(c) ==
    /\ c \in DOMAIN gcalls
    /\ gcalls[c].pc = "analyzed"
    /\ IF gcalls[c].analysis = NullAnalysis
       THEN /\ glast' = [gcalls[c] EXCEPT !.pc = "done", !.ret = "threw"]
            /\ gcalls' = Drop(gcalls, c)
       ELSE /\ gcalls' = [gcalls EXCEPT ![c].pc = "files",
                 ![c].project =
                     [NoProject EXCEPT
                        !.id = ProjId(c), !.type = gcalls[c].req.type,
                        !.techStack = selectTechStack(gcalls[c].req.type,
                                                      gcalls[c].analysis),
                        !.files = generateProjectFiles(gcalls[c].req.type)]]
            /\ UNCHANGED glast
    /\ UNCHANGED <<manusApiUrl, manusApiKey, generatedProjects, gseq, gins>>

\* this.generatedProjects.set(projectId, project) and the capacity check
StoreProject(project) ==
    StoreInsert(generatedProjects, project.id, project, maxProjects)

\* after `await this.generateProjectFiles`: confidence, store, evict, return
GenerateFinish(c) ==
    /\ c \in DOMAIN gcalls
    /\ gcalls[c].pc = "files"
    /\ LET project == [gcalls[c].project EXCEPT
                          !.confidence = calculateConfidence(gcalls[c].project.files)]
       IN  /\ generatedProjects' = StoreProject(project)
           /\ gins' = Append(gins, project.id)
           /\ glast' = [gcalls[c] EXCEPT !.pc = "done", !.ret = "returned",
                                         !.project = project]
    /\ gcalls' = Drop(gcalls, c)
    /\ UNCHANGED <<manusApiUrl, manusApiKey, gseq>>

\* calculateConfidence(analysis, files) on a file map of its own: the call
\* ended last carries the map's keys and the number returned
ConfidenceOf(files) ==
    /\ gcalls = NoCalls
    /\ glast' = [NoGenerate EXCEPT !.pc = "confidence", !.ret = "returned",
                                   !.project.files = files,
                                   !.project.confidence = calculateConfidence(files)]
    /\ UNCHANGED <<manusApiUrl, manusApiKey, generatedProjects, gcalls, gseq, gins>>

\* the file maps explored with calculateConfidence: some of the four fixed
\* files, then up to MaxSourceFiles source files
FixedFiles  == <<"package.json", "README.md", "tsconfig.json", ".gitignore">>
SourceFiles == <<"src/f01.ts", "src/f02.ts", "src/f03.ts", "src/f04.ts",
                 "src/f05.ts", "src/f06.ts", "src/f07.ts", "src/f08.ts",
                 "src/f09.ts", "src/f10.ts", "src/f11.ts", "src/f12.ts">>
Keep(list, kept) ==
    LET Kept(name) == name \in kept
    IN  SelectSeq(list, Kept)
FileMaps ==
    {Keep(FixedFiles, kept) \o SubSeq(SourceFiles, 1, n) :
        kept \in SUBSET {FixedFiles[i] : i \in DOMAIN FixedFiles},
        n \in 0..Min(MaxSourceFiles, Len(SourceFiles))}

\* the requirements and the answers explored with the engine's calls
GenTypes      == {"game", "blog"}
GenFeatures   == {0, 9}
GenAnswers    == {NullAnalysis, ManusAnalysis("enterprise"), ManusAnalysis("(undefined)")}

GenInit ==
    /\ manusApiUrl \in {"", "https://manus"}
    /\ manusApiKey \in {"", "manus-key"}
    /\ generatedProjects = <<>>
    /\ gcalls = NoCalls
    /\ gseq = 0
    /\ glast = NoGenerate
    /\ gins = <<>>

-----------------------------------------------------------------------------
(* SelfHealer  (lib/healers/self-healer.ts)                                *)
(*                                                                         *)
(* A code string is the sequence of its characters.  A regular expression  *)
(* is the sequence of its items: a character set taken once, zero or more  *)
(* times (greedy), one or more times (greedy), or the assertion \b.        *)

\* the characters \w matches
WordChars ==
    {"a", "b", "c", "d", "e", "f", "g", "h", "i", "j", "k", "l", "m", "n", "o", "p",
     "q", "r", "s", "t", "u", "v", "w", "x", "y", "z", "A", "B", "C", "D", "E", "F",
     "G", "H", "I", "J", "K", "L", "M", "N", "O", "P", "Q", "R", "S", "T", "U", "V",
     "W", "X", "Y", "Z", "0", "1", "2", "3", "4", "5", "6", "7", "8", "9", "_"}

\* the characters \s matches, of those a code string is built from
SpaceChars == {" ", "\t", "\n", "\r", "\f"}

Ch(c)     == [neg |-> FALSE, set |-> {c}]
In(S)     == [neg |-> FALSE, set |-> S]
NotIn(S)  == [neg |-> TRUE, set |-> S]
Word      == In(WordChars)
Space     == In(SpaceChars)

One(cs)   == [q |-> "1", cs |-> cs]
Star(cs)  == [q |-> "*", cs |-> cs]
Plus(cs)  == [q |-> "+", cs |-> cs]
Boundary  == [q |-> "b", cs |-> Word]
Lit(cs)   == [i \in DOMAIN cs |-> One(Ch(cs[i]))]

InSet(c, cs) == (c \in cs.set) # cs.neg

\* the number of characters of s from position i on that are in cs
Run(cs, s, i) ==
    LET stops == {j \in i..Len(s) : ~InSet(s[j], cs)}
    IN  IF stops = {} THEN Len(s) - i + 1
        ELSE (CHOOSE j \in stops : \A j2 \in stops : j <= j2) - i

\* \b at position i: exactly one of s[i-1], s[i] is a word character
AtBoundary(s, i) ==
    (i > 1 /\ s[i - 1] \in WordChars) # (i <= Len(s) /\ s[i] \in WordChars)

\* The backtracking match of items k.. of re at position i of s: the position
\* after the match, or 0 when there is none.  A greedy item takes as many
\* characters as it can and gives them back one at a time.
RECURSIVE MatchAt(_, _, _, _), GiveBack(_, _, _, _, _, _)
MatchAt(re, k, s, i) ==
    IF k > Len(re) THEN i
    ELSE CASE re[k].q = "1" ->
                IF i <= Len(s) /\ InSet(s[i], re[k].cs)
                THEN MatchAt(re, k + 1, s, i + 1) ELSE 0
           [] re[k].q = "b" ->
                IF AtBoundary(s, i) THEN MatchAt(re, k + 1, s, i) ELSE 0
           [] re[k].q = "*" -> GiveBack(re, k, s, i, Run(re[k].cs, s, i), 0)
           [] re[k].q = "+" -> GiveBack(re, k, s, i, Run(re[k].cs, s, i), 1)

GiveBack(re, k, s, i, n, least) ==
    LET taken == {t \in least..n : MatchAt(re, k + 1, s, i + t) # 0}
    IN  IF taken = {} THEN 0
        ELSE MatchAt(re, k + 1, s,
                     i + (CHOOSE t \in taken : \A t2 \in taken : t >= t2))

\* code.match(regex) of a /g expression: null (the empty sequence here, no
\* pattern matches the empty string) or the matches from left to right
RECURSIVE MatchesFrom(_, _, _)
MatchesFrom(re, s, p) ==
    LET at == {q \in p..Len(s) : MatchAt(re, 1, s, q) # 0}
    IN  IF at = {} THEN <<>>
        ELSE LET q == CHOOSE q \in at : \A q2 \in at : q <= q2
                 e == MatchAt(re, 1, s, q)
             IN  <<SubSeq(s, q, e - 1)>> \o MatchesFrom(re, s, e)

StringMatch(s, re) == MatchesFrom(re, s, 1)

\* the patterns of scanSyntaxErrors, in the order of its list
SyntaxPatterns == <<
    \* /\{[^}]*\{[^}]*\}[^}]*\}/g
    [message |-> "Nested braces detected",
     regex |->
            Lit(<<"{">>)
         \o <<Star(NotIn({"}"}))>>
         \o Lit(<<"{">>)
         \o <<Star(NotIn({"}"}))>>
         \o Lit(<<"}">>)
         \o <<Star(NotIn({"}"}))>>
         \o Lit(<<"}">>)],
    \* /\([^)]*\([^)]*\)[^)]*\)/g
    [message |-> "Nested parentheses detected",
     regex |->
            Lit(<<"(">>)
         \o <<Star(NotIn({")"}))>>
         \o Lit(<<"(">>)
         \o <<Star(NotIn({")"}))>>
         \o Lit(<<")">>)
         \o <<Star(NotIn({")"}))>>
         \o Lit(<<")">>)],
    \* /const\s+\w+\s*=/g
    [message |-> "Missing semicolon",
     regex |->
            Lit(<<"c", "o", "n", "s", "t">>)
         \o <<Plus(Space), Plus(Word), Star(Space)>>
         \o Lit(<<"=">>)],
    \* /function\s+\w+\s*\(\s*\)\s*\{/g
    [message |-> "Empty function parameters",
     regex |->
            Lit(<<"f", "u", "n", "c", "t", "i", "o", "n">>)
         \o <<Plus(Space), Plus(Word), Star(Space)>>
         \o Lit(<<"(">>)
         \o <<Star(Space)>>
         \o Lit(<<")">>)
         \o <<Star(Space)>>
         \o Lit(<<"{">>)]>>

\* the patterns of scanTypeErrors, in the order of its list
TypePatterns == <<
    \* /:\s*any\b/g
    [message |-> "Use of \"any\" type detected",
     regex |->
            Lit(<<":">>)
         \o <<Star(Space)>>
         \o Lit(<<"a", "n", "y">>)
         \o <<Boundary>>],
    \* /\w+\s*\|\s*undefined/g
    [message |-> "Potentially undefined value",
     regex |->
            <<Plus(Word), Star(Space)>>
         \o Lit(<<"|">>)
         \o <<Star(Space)>>
         \o Lit(<<"u", "n", "d", "e", "f", "i", "n", "e", "d">>)],
    \* /as\s+\w+/g
    [message |-> "Type assertion used - consider better typing",
     regex |->
            Lit(<<"a", "s">>)
         \o <<Plus(Space), Plus(Word)>>]>>

\* the patterns of scanLogicErrors, in the order of its list
LogicPatterns == <<
    \* /if\s*\(\s*true\s*\)/g
    [message |-> "Condition always true",
     regex |->
            Lit(<<"i", "f">>)
         \o <<Star(Space)>>
         \o Lit(<<"(">>)
         \o <<Star(Space)>>
         \o Lit(<<"t", "r", "u", "e">>)
         \o <<Star(Space)>>
         \o Lit(<<")">>)],
    \* /if\s*\(\s*false\s*\)/g
    [message |-> "Condition always false",
     regex |->
            Lit(<<"i", "f">>)
         \o <<Star(Space)>>
         \o Lit(<<"(">>)
         \o <<Star(Space)>>
         \o Lit(<<"f", "a", "l", "s", "e">>)
         \o <<Star(Space)>>
         \o Lit(<<")">>)],
    \* /while\s*\(\s*true\s*\)/g
    [message |-> "Infinite loop detected",
     regex |->
            Lit(<<"w", "h", "i", "l", "e">>)
         \o <<Star(Space)>>
         \o Lit(<<"(">>)
         \o <<Star(Space)>>
         \o Lit(<<"t", "r", "u", "e">>)
         \o <<Star(Space)>>
         \o Lit(<<")">>)],
    \* /==\s*null/g
    [message |-> "Use === instead of ==",
     regex |->
            Lit(<<"=", "=">>)
         \o <<Star(Space)>>
         \o Lit(<<"n", "u", "l", "l">>)],
    \* /var\s+\w+/g
    [message |-> "Use const/let instead of var",
     regex |->
            Lit(<<"v", "a", "r">>)
         \o <<Plus(Space), Plus(Word)>>]>>

\* the patterns of scanSecurityIssues, in the order of its list
SecurityPatterns == <<
    \* /eval\s*\(/g
    [message |-> "eval() is dangerous",
     regex |->
            Lit(<<"e", "v", "a", "l">>)
         \o <<Star(Space)>>
         \o Lit(<<"(">>)],
    \* /innerHTML\s*=/g
    [message |-> "innerHTML can cause XSS",
     regex |->
            Lit(<<"i", "n", "n", "e", "r", "H", "T", "M", "L">>)
         \o <<Star(Space)>>
         \o Lit(<<"=">>)],
    \* /dangerouslySetInnerHTML/g
    [message |-> "dangerouslySetInnerHTML can cause XSS",
     regex |->
            Lit(<<"d", "a", "n", "g", "e", "r", "o", "u", "s", "l", "y", "S", "e", "t", "I", "n", "n", "e", "r", "H", "T", "M", "L">>)],
    \* /process\.env\.\w+/g
    [message |-> "Ensure env vars are not exposed",
     regex |->
            Lit(<<"p", "r", "o", "c", "e", "s", "s", ".", "e", "n", "v", ".">>)
         \o <<Plus(Word)>>],
    \* /password\s*=\s*['"][^'"]*['"]/g
    [message |-> "Hardcoded password detected",
     regex |->
            Lit(<<"p", "a", "s", "s", "w", "o", "r", "d">>)
         \o <<Star(Space)>>
         \o Lit(<<"=">>)
         \o <<Star(Space), One(In({"'", "\""})), Star(NotIn({"'", "\""})), One(In({"'", "\""}))>>]>>

\* the patterns of scanPerformanceIssues, in the order of its list
PerformancePatterns == <<
    \* /\.map\s*\(\s*\)\s*\.filter/g
    [message |-> "Chain map and filter for better performance",
     regex |->
            Lit(<<".", "m", "a", "p">>)
         \o <<Star(Space)>>
         \o Lit(<<"(">>)
         \o <<Star(Space)>>
         \o Lit(<<")">>)
         \o <<Star(Space)>>
         \o Lit(<<".", "f", "i", "l", "t", "e", "r">>)],
    \* /for\s*\(\s*let\s+\w+\s*=\s*0/g
    [message |-> "Consider using forEach or map",
     regex |->
            Lit(<<"f", "o", "r">>)
         \o <<Star(Space)>>
         \o Lit(<<"(">>)
         \o <<Star(Space)>>
         \o Lit(<<"l", "e", "t">>)
         \o <<Plus(Space), Plus(Word), Star(Space)>>
         \o Lit(<<"=">>)
         \o <<Star(Space)>>
         \o Lit(<<"0">>)],
    \* /JSON\.stringify\s*\(/g
    [message |-> "JSON.stringify can be slow on large objects",
     regex |->
            Lit(<<"J", "S", "O", "N", ".", "s", "t", "r", "i", "n", "g", "i", "f", "y">>)
         \o <<Star(Space)>>
         \o Lit(<<"(">>)],
    \* /setTimeout\s*\(\s*\w+\s*,\s*0\s*\)/g
    [message |-> "setTimeout with 0ms is inefficient",
     regex |->
            Lit(<<"s", "e", "t", "T", "i", "m", "e", "o", "u", "t">>)
         \o <<Star(Space)>>
         \o Lit(<<"(">>)
         \o <<Star(Space), Plus(Word), Star(Space)>>
         \o Lit(<<",">>)
         \o <<Star(Space)>>
         \o Lit(<<"0">>)
         \o <<Star(Space)>>
         \o Lit(<<")">>)]>>

\* a bug the scanXxx methods could have: a finding for each match
RECURSIVE ScanFromEveryMatch(_, _, _, _, _)
ScanFromEveryMatch(patterns, k, type, severity, code) ==
    IF k > Len(patterns) THEN <<>>
    ELSE LET matches == StringMatch(code, patterns[k].regex)
         IN  [i \in 1..Len(matches) |->
                 [type |-> type, severity |-> severity,
                  message |-> patterns[k].message, code |-> matches[i]]]
             \o ScanFromEveryMatch(patterns, k + 1, type, severity, code)

\* one scanXxx method: a finding for each pattern that matches, carrying the
\* first match
RECURSIVE ScanFrom(_, _, _, _, _)
ScanFrom(patterns, k, type, severity, code) ==
    IF k > Len(patterns) THEN <<>>
    ELSE LET matches == StringMatch(code, patterns[k].regex)
         IN  (IF matches # <<>>
              THEN <<[type |-> type, severity |-> severity,
                      message |-> patterns[k].message, code |-> matches[1]]>>
              ELSE <<>>)
             \o ScanFrom(patterns, k + 1, type, severity, code)

scanSyntaxErrors(code)      == ScanFrom(SyntaxPatterns, 1, "syntax", "high", code)
scanTypeErrors(code, language) ==
    IF language # "typescript" THEN <<>>
    ELSE ScanFrom(TypePatterns, 1, "type", "medium", code)
scanLogicErrors(code)       == ScanFrom(LogicPatterns, 1, "logic", "high", code)
scanSecurityIssues(code)    == ScanFrom(SecurityPatterns, 1, "security", "critical", code)
scanPerformanceIssues(code) == ScanFrom(PerformancePatterns, 1, "performance", "low", code)

\* a bug scanCode could have: the type group after the others
scanCodeTypeLast(code, language) ==
    scanSyntaxErrors(code) \o scanLogicErrors(code)
        \o scanSecurityIssues(code) \o scanPerformanceIssues(code)
        \o scanTypeErrors(code, language)

\* scanCode: the five groups in their fixed order
scanCode(code, language) ==
    scanSyntaxErrors(code) \o scanTypeErrors(code, language)
        \o scanLogicErrors(code) \o scanSecurityIssues(code)
        \o scanPerformanceIssues(code)

\* "y = 1"
CodeClean ==
    <<"y", " ", "=", " ", "1">>
\* "eval(x)"
CodeEval ==
    <<"e", "v", "a", "l", "(", "x", ")">>
\* "var x = eval(y)"
CodeVarEval ==
    <<"v", "a", "r", " ", "x", " ", "=", " ", "e", "v", "a", "l", "(", "y",
      ")">>
\* "x as T"
CodeCast ==
    <<"x", " ", "a", "s", " ", "T">>
\* "var a:any==null|undefined as T;eval((1));if(true){{}}if(false)while(true)"
CodeMany ==
    <<"v", "a", "r", " ", "a", ":", "a", "n", "y", "=", "=", "n", "u", "l",
      "l", "|", "u", "n", "d", "e", "f", "i", "n", "e", "d", " ", "a", "s",
      " ", "T", ";", "e", "v", "a", "l", "(", "(", "1", ")", ")", ";", "i",
      "f", "(", "t", "r", "u", "e", ")", "{", "{", "}", "}", "i", "f", "(",
      "f", "a", "l", "s", "e", ")", "w", "h", "i", "l", "e", "(", "t", "r",
      "u", "e", ")">>
\* "var a;var b"
CodeVarVar ==
    <<"v", "a", "r", " ", "a", ";", "v", "a", "r", " ", "b">>
\* "const a=1;const b=2;function f(){}x.innerHTML=dangerouslySetInnerHTML"
CodeConst ==
    <<"c", "o", "n", "s", "t", " ", "a", "=", "1", ";", "c", "o", "n", "s",
      "t", " ", "b", "=", "2", ";", "f", "u", "n", "c", "t", "i", "o", "n",
      " ", "f", "(", ")", "{", "}", "x", ".", "i", "n", "n", "e", "r", "H",
      "T", "M", "L", "=", "d", "a", "n", "g", "e", "r", "o", "u", "s", "l",
      "y", "S", "e", "t", "I", "n", "n", "e", "r", "H", "T", "M", "L">>
\* "process.env.A;password='p';a.map().filter;for(let i=0;JSON.stringify(setTimeout(f,0)"
CodeEnv ==
    <<"p", "r", "o", "c", "e", "s", "s", ".", "e", "n", "v", ".", "A", ";",
      "p", "a", "s", "s", "w", "o", "r", "d", "=", "'", "p", "'", ";", "a",
      ".", "m", "a", "p", "(", ")", ".", "f", "i", "l", "t", "e", "r", ";",
      "f", "o", "r", "(", "l", "e", "t", " ", "i", "=", "0", ";", "J", "S",
      "O", "N", ".", "s", "t", "r", "i", "n", "g", "i", "f", "y", "(", "s",
      "e", "t", "T", "i", "m", "e", "o", "u", "t", "(", "f", ",", "0", ")">>
\* the inputs and the replacements explored with the healer's calls
HealCodes     == {CodeClean, CodeEval, CodeVarEval, CodeCast}
HealLanguages == {"typescript", "javascript"}
HealResponses == {<<>>, CodeClean, CodeEval}
\* the inputs and the replacements explored with the validation of the
\* healed code, one call after another
ValidateCodes     == {CodeEval, CodeMany}
ValidateResponses == {<<>>, CodeClean, CodeVarEval, CodeMany}
\* the inputs and the replacements explored with the scanner, one call of
\* healCode after another; between them the codes match each of the
\* twenty-one patterns
ScanCodes     == {CodeClean, CodeCast, CodeVarVar, CodeMany, CodeConst, CodeEnv}
ScanLanguages == {"typescript", "javascript", "TypeScript", ""}
ScanResponses == {<<>>, CodeClean}

\* scanCode over the strings explored, computed once
ScanTable ==
    [code \in HealCodes \cup HealResponses \cup ValidateCodes
                \cup ValidateResponses \cup ScanCodes \cup ScanResponses |->
        [language \in HealLanguages \cup ScanLanguages |->
            scanCode(code, language)]]
Scan(code, language) == ScanTable[code][language]

\* validateCode without Math.max
validateCodeUnclamped(code, language) ==
    LET errors == Scan(code, language)
    IN  IF Len(errors) = 0 THEN 100 ELSE 100 - Len(errors) * 10

\* validateCode, in hundredths: 1.0, or max(0, 1.0 - errors.length * 0.1)
validateCode(code, language) ==
    LET errors == Scan(code, language)
    IN  IF Len(errors) = 0 THEN 100
        ELSE IF 100 - Len(errors) * 10 < 0 THEN 0 ELSE 100 - Len(errors) * 10

HealId(n) == <<"heal", n>>

NoHealing == [original |-> <<>>, healed |-> <<>>, errorsFound |-> <<>>,
              errorsFix |-> 0, confidence |-> 0]

NoHeal == [id |-> 0, code |-> <<>>, language |-> "none", pc |-> "none",
           errors |-> <<>>, idx |-> 0, healed |-> <<>>, fixedCount |-> 0,
           requests |-> 0, evts |-> <<>>, result |-> NoHealing, ret |-> "none"]

\* a bug the early return could have: the confidence of an unscanned result
CleanResultNoConfidence(code) ==
    [original |-> code, healed |-> code, errorsFound |-> <<>>, errorsFix |-> 0,
     confidence |-> 0]

\* the result healCode returns when the scan finds nothing
CleanResult(code) ==
    [original |-> code, healed |-> code, errorsFound |-> <<>>, errorsFix |-> 0,
     confidence |-> 100]

\* healCode from its entry to the first suspension: the scan, and either the
\* early return or the first request to the rewrite collaborator
HealStart(code, language) ==
    /\ hseq < MaxHeals
    /\ hseq' = hseq + 1
    /\ LET errors == Scan(code, language)
           call   == [NoHeal EXCEPT !.id = hseq + 1, !.code = code,
                                    !.language = language, !.errors = errors,
                                    !.evts = <<"healing-started", "scan-complete">>]
       IN  IF Len(errors) = 0
           THEN /\ hlast' = [call EXCEPT !.pc = "done", !.ret = "returned",
                                         !.result = CleanResult(code)]
                /\ UNCHANGED hcalls
           ELSE /\ hcalls' = Put(hcalls, hseq + 1,
                       [call EXCEPT !.pc = "fix", !.ret = "pending", !.idx = 1,
                                    !.healed = code, !.requests = 1])
                /\ UNCHANGED hlast
    /\ UNCHANGED <<healingHistory, hins>>

\* fixError after the request settled: `result.response || code`
fixError(code, response) == IF response = <<>> THEN code ELSE response

\* a bug the loop could have: the try block around the whole loop, so that a
\* failed request ends the processing of the findings
AfterRewriteStopOnFailure(call, failed, response) ==
    LET fixedCode == fixError(call.healed, response)
        changed   == ~failed /\ fixedCode # call.healed
        c1        == [call EXCEPT !.healed = IF changed THEN fixedCode ELSE @,
                                  !.fixedCount = IF changed THEN @ + 1 ELSE @]
    IN  IF call.idx < Len(call.errors) /\ ~failed
        THEN [c1 EXCEPT !.idx = @ + 1, !.requests = @ + 1]
        ELSE [c1 EXCEPT !.pc = "validate",
                        !.evts = Append(@, "healing-complete")]

\* a bug the loop could have: a rescan after each rewrite, the remaining
\* findings dropped when the current string scans clean
AfterRewriteRescan(call, failed, response) ==
    LET fixedCode == fixError(call.healed, response)
        changed   == ~failed /\ fixedCode # call.healed
        c1        == [call EXCEPT !.healed = IF changed THEN fixedCode ELSE @,
                                  !.fixedCount = IF changed THEN @ + 1 ELSE @]
    IN  IF call.idx < Len(call.errors) /\ Scan(c1.healed, call.language) # <<>>
        THEN [c1 EXCEPT !.idx = @ + 1, !.requests = @ + 1]
        ELSE [c1 EXCEPT !.pc = "validate",
                        !.evts = Append(@, "healing-complete")]

\* the loop of healCode after the request for finding idx settled.  A request
\* that failed is caught and the finding is skipped.  After the last finding
\* healing-complete is emitted and validateCode is awaited.
AfterRewrite(call, failed, response) ==
    LET fixedCode == fixError(call.healed, response)
        changed   == ~failed /\ fixedCode # call.healed
        c1        == [call EXCEPT !.healed = IF changed THEN fixedCode ELSE @,
                                  !.fixedCount = IF changed THEN @ + 1 ELSE @]
    IN  IF call.idx < Len(call.errors)
        THEN [c1 EXCEPT !.idx = @ + 1, !.requests = @ + 1]
        ELSE [c1 EXCEPT !.pc = "validate",
                        !.evts = Append(@, "healing-complete")]

RewriteSettles(c, failed, response) ==
    /\ c \in DOMAIN hcalls
    /\ hcalls[c].pc = "fix"
    /\ hcalls' = [hcalls EXCEPT ![c] = AfterRewrite(hcalls[c], failed, response)]
    /\ UNCHANGED <<healingHistory, hseq, hlast, hins>>

\* a bug the store could have: the result pushed before and after the test
StoreHealingTwice(id, result) ==
    EvictOldest(MapSet(healingHistory, HealId(id), <<result, result>>), maxHistory)

\* has / set / push, and the capacity check
StoreHealing(id, result) ==
    LET key  == HealId(id)
        m1   == IF MapHas(healingHistory, key) THEN healingHistory
                ELSE MapSet(healingHistory, key, <<>>)
        m2   == MapSet(m1, key, Append(MapGet(m1, key), result))
    IN  EvictOldest(m2, maxHistory)

\* healCode after `await this.validateCode`: the result, the store, the return
HealFinish(c) ==
    /\ c \in DOMAIN hcalls
    /\ hcalls[c].pc = "validate"
    /\ LET call   == hcalls[c]
           result == [original |-> call.code, healed |-> call.healed,
                      errorsFound |-> call.errors, errorsFix |-> call.fixedCount,
                      confidence |-> validateCode(call.healed, call.language)]
       IN  /\ healingHistory' = StoreHealing(c, result)
           /\ hins' = Append(hins, HealId(c))
           /\ hlast' = [call EXCEPT !.pc = "done", !.ret = "returned",
                                    !.result = result]
    /\ hcalls' = Drop(hcalls, c)
    /\ UNCHANGED hseq

HealInit ==
    /\ healingHistory = <<>>
    /\ hcalls = NoCalls
    /\ hseq = 0
    /\ hlast = NoHeal
    /\ hins = <<>>

-----------------------------------------------------------------------------
(* CodeGenerator  (lib/generators/code-generator.ts)                       *)
(*                                                                         *)
(* A request is the number of its features and, of its techStack, whether  *)
(* an entry names Node or Express, React or Vue, Supabase or PostgreSQL.   *)
(* A generated file is represented by the step that produced it.           *)

Repeat(x, n) == [i \in 1..n |-> x]

\* the requests to aiOrchestrator that generateProjectCode makes, in order
Requests(req) ==
    <<"architecture">>
    \o (IF req.node
        THEN <<"backend">> \o Repeat("backend", req.features) \o <<"backend", "backend">>
        ELSE <<>>)
    \o (IF req.react
        THEN <<"frontend">> \o Repeat("frontend", req.features)
                \o <<"frontend", "frontend", "frontend">>
        ELSE <<>>)
    \o (IF req.database THEN <<"database", "database", "database">> ELSE <<>>)
    \o <<"test", "test", "test">>
    \o <<"config", "config", "config", "config">>

GenId(n) == <<"gen", n>>

NoCodeGen == [id |-> 0, req |-> [features |-> 0, node |-> FALSE, react |-> FALSE,
                                 database |-> FALSE],
              pc |-> "none", answered |-> 0, allCode |-> <<>>, ret |-> "none"]

\* generateProjectCode from its entry to the first request
CodeGenStart(req) ==
    /\ cseq < MaxCodeGens
    /\ cseq' = cseq + 1
    /\ ccalls' = Put(ccalls, cseq + 1,
          [NoCodeGen EXCEPT !.id = cseq + 1, !.req = req, !.pc = "request",
                            !.ret = "pending"])
    /\ UNCHANGED <<generatedCode, clast, cins>>

\* a request answers: generateCode builds the file (the architecture request
\* builds none) and the next request is made, or the last step has ended
AiAnswers(c) ==
    /\ c \in DOMAIN ccalls
    /\ ccalls[c].pc = "request"
    /\ LET call == ccalls[c]
           plan == Requests(call.req)
           step == plan[call.answered + 1]
       IN  ccalls' = [ccalls EXCEPT
              ![c].answered = @ + 1,
              ![c].allCode = IF step = "architecture" THEN @ ELSE Append(@, step),
              ![c].pc = IF call.answered + 1 = Len(plan) THEN "store" ELSE "request"]
    /\ UNCHANGED <<generatedCode, cseq, clast, cins>>

\* a request fails: nothing catches it before the catch block of
\* generateProjectCode, which emits generation-error and rethrows
AiFails(c) ==
    /\ c \in DOMAIN ccalls
    /\ ccalls[c].pc = "request"
    /\ clast' = [ccalls[c] EXCEPT !.pc = "done", !.ret = "threw"]
    /\ ccalls' = Drop(ccalls, c)
    /\ UNCHANGED <<generatedCode, cseq, cins>>

\* this.generatedCode.set(projectId, allCode) and the capacity check
StoreCode(id, allCode) == StoreInsert(generatedCode, GenId(id), allCode, maxGenerations)

\* after the last step: store, evict, emit generation-complete, return
CodeGenFinish(c) ==
    /\ c \in DOMAIN ccalls
    /\ ccalls[c].pc = "store"
    /\ generatedCode' = StoreCode(c, ccalls[c].allCode)
    /\ cins' = Append(cins, GenId(c))
    /\ clast' = [ccalls[c] EXCEPT !.pc = "done", !.ret = "returned"]
    /\ ccalls' = Drop(ccalls, c)
    /\ UNCHANGED cseq

\* the requests explored with the generator's calls
CodeGenRequests ==
    {[features |-> 0, node |-> FALSE, react |-> FALSE, database |-> FALSE],
     [features |-> 1, node |-> TRUE,  react |-> FALSE, database |-> TRUE],
     [features |-> 0, node |-> FALSE, react |-> TRUE,  database |-> FALSE]}

CodeGenInit ==
    /\ generatedCode = <<>>
    /\ ccalls = NoCalls
    /\ cseq = 0
    /\ clast = NoCodeGen
    /\ cins = <<>>

-----------------------------------------------------------------------------
(* ManusIntegration  (lib/core/manus-integration.ts)                       *)
(*                                                                         *)
(* research, optimize and getBestPractices have one shape: return the      *)
(* fallback when a credential is missing, otherwise await the request and  *)
(* return a property of response.data, or the fallback when that property  *)
(* is falsy or when anything inside the try block throws.  A value is a    *)
(* pair of a text (research, optimize) and a list (getBestPractices).      *)

ManusOps == {"research", "optimize", "getBestPractices"}

\* the argument of a call: the query, the code or the project type
ManusArg == "let x = 1"

\* response.data: null, or an object whose result / optimized / practices
\* property is missing ("(undefined)", hasList FALSE), empty or filled
ManusReplies ==
    {[null |-> n, text |-> t, hasList |-> h, list |-> l] :
        n \in BOOLEAN, t \in {"(undefined)", "", "answer"}, h \in BOOLEAN,
        l \in {<<>>, <<"practice">>}}

\* the fallback of research copied to optimize
ManusFallbackEmpty(op, arg) == [text |-> "", list |-> <<>>]

\* what each method returns when it does not use the answer
ManusFallback(op, arg) ==
    [text |-> IF op = "optimize" THEN arg ELSE "", list |-> <<>>]

\* response.data.result || '', response.data.optimized || code,
\* response.data.practices || []
ManusValue(op, arg, reply) ==
    [text |-> IF reply.text \in {"(undefined)", ""}
              THEN ManusFallback(op, arg).text ELSE reply.text,
     list |-> IF op = "getBestPractices" /\ reply.hasList
              THEN reply.list ELSE <<>>]

NoManus == [id |-> 0, op |-> "none", arg |-> "", pc |-> "none", requested |-> FALSE,
            failed |-> FALSE, ret |-> "none", val |-> ManusFallback("none", "")]

ManusReady == apiUrl # "" /\ apiKey # ""

\* a method from its entry to its return or to the await of the request
ManusStart(op, arg) ==
    /\ mseq < MaxManusCalls
    /\ mseq' = mseq + 1
    /\ LET call == [NoManus EXCEPT !.id = mseq + 1, !.op = op, !.arg = arg]
       IN  IF ManusReady
           THEN /\ mcalls' = Put(mcalls, mseq + 1,
                       [call EXCEPT !.pc = "http", !.requested = TRUE,
                                    !.ret = "pending"])
                /\ UNCHANGED mlast
           ELSE /\ mlast' = [call EXCEPT !.pc = "done", !.ret = "returned",
                                         !.val = ManusFallback(op, arg)]
                /\ UNCHANGED mcalls
    /\ UNCHANGED <<apiUrl, apiKey>>

\* the request settles: it rejects, or it resolves with response.data = reply;
\* reading a property of a null response.data throws inside the try block
ManusSettles(c, failed, reply) ==
    /\ c \in DOMAIN mcalls
    /\ mcalls[c].pc = "http"
    /\ LET call == mcalls[c]
           val  == IF failed \/ reply.null
                   THEN ManusFallback(call.op, call.arg)
                   ELSE ManusValue(call.op, call.arg, reply)
       IN  mlast' = [call EXCEPT !.pc = "done", !.ret = "returned",
                                 !.failed = failed, !.val = val]
    /\ mcalls' = Drop(mcalls, c)
    /\ UNCHANGED <<apiUrl, apiKey, mseq>>

ManusInit ==
    /\ apiUrl \in {"", "https://manus"}
    /\ apiKey \in {"", "manus-key"}
    /\ mcalls = NoCalls
    /\ mseq = 0
    /\ mlast = NoManus

-----------------------------------------------------------------------------
(* Specifications.  The engines share no variable, so a run of the program  *)
(* projects onto a run of each engine; each engine is explored with the     *)
(* others at rest, in the state their constructors leave with no            *)
(* environment variable set.                                                *)

DeployQuiet ==
    /\ vercelToken = "" /\ githubToken = "" /\ deployments = <<>>
    /\ dcalls = NoCalls /\ dseq = 0 /\ dlast = NoDeploy /\ dins = <<>>
LedgerQuiet == LedgerInit
GenQuiet ==
    /\ manusApiUrl = "" /\ manusApiKey = "" /\ generatedProjects = <<>>
    /\ gcalls = NoCalls /\ gseq = 0 /\ glast = NoGenerate /\ gins = <<>>

HealQuiet == HealInit
CodeGenQuiet == CodeGenInit
ManusQuiet ==
    /\ apiUrl = "" /\ apiKey = ""
    /\ mcalls = NoCalls /\ mseq = 0 /\ mlast = NoManus

\* the deployment dispatcher
Init == DeployInit /\ LedgerQuiet /\ GenQuiet /\ HealQuiet /\ CodeGenQuiet /\ ManusQuiet
Next ==
    \/ \E t \in Targets \cup {UnknownTarget}, o1, o2, o3 \in Outcomes :
          DeployStart(t, o1, o2, o3) /\ UNCHANGED <<lvars, gvars, hvars, cvars, mvars>>
    \/ \E c \in DOMAIN dcalls, ohttp, opush \in Outcomes :
          HttpSettles(c, ohttp, opush) /\ UNCHANGED <<lvars, gvars, hvars, cvars, mvars>>
    \/ \E c \in DOMAIN dcalls : DeployResume(c) /\ UNCHANGED <<lvars, gvars, hvars, cvars, mvars>>
Spec == Init /\ [][Next]_vars

\* the monetization ledger
InitLedger == LedgerInit /\ DeployQuiet /\ GenQuiet /\ HealQuiet /\ CodeGenQuiet /\ ManusQuiet
NextLedger ==
    \/ \E id \in TemplateIds, p \in Prices, d \in Downloads :
          publishTemplate([id |-> id, price |-> p, downloads |-> d])
             /\ UNCHANGED <<dvars, gvars, hvars, cvars, mvars>>
    \/ \E id \in TemplateIds \cup {UnknownId}, b \in BuyerIds :
          purchaseTemplate(id, b) /\ UNCHANGED <<dvars, gvars, hvars, cvars, mvars>>
SpecLedger == InitLedger /\ [][NextLedger]_vars

\* the project generator
InitGen == GenInit /\ DeployQuiet /\ LedgerQuiet /\ HealQuiet /\ CodeGenQuiet /\ ManusQuiet
NextGen ==
    \/ \E t \in GenTypes, n \in GenFeatures :
          GenerateStart([type |-> t, features |-> n]) /\ UNCHANGED <<dvars, lvars, hvars, cvars, mvars>>
    \/ \E c \in DOMAIN gcalls : ManusFails(c) /\ UNCHANGED <<dvars, lvars, hvars, cvars, mvars>>
    \/ \E c \in DOMAIN gcalls, data \in GenAnswers :
          ManusAnswers(c, data) /\ UNCHANGED <<dvars, lvars, hvars, cvars, mvars>>
    \/ \E c \in DOMAIN gcalls : GenerateSelect(c) /\ UNCHANGED <<dvars, lvars, hvars, cvars, mvars>>
    \/ \E c \in DOMAIN gcalls : GenerateFinish(c) /\ UNCHANGED <<dvars, lvars, hvars, cvars, mvars>>
SpecGen == InitGen /\ [][NextGen]_vars

\* the project generator without credentials, one call after another, over
\* every project type and every feature count up to MaxFeatures
SelectTypes == ProjectTypes \cup {"blog", "constructor"}
InitSelect == GenQuiet /\ DeployQuiet /\ LedgerQuiet /\ HealQuiet /\ CodeGenQuiet /\ ManusQuiet
NextSelect ==
    \/ \E t \in SelectTypes, n \in 0..MaxFeatures :
          /\ gcalls = NoCalls /\ gseq < MaxSelects
          /\ GenerateStart([type |-> t, features |-> n])
          /\ UNCHANGED <<dvars, lvars, hvars, cvars, mvars>>
    \/ \E c \in DOMAIN gcalls : GenerateSelect(c) /\ UNCHANGED <<dvars, lvars, hvars, cvars, mvars>>
    \/ \E c \in DOMAIN gcalls : GenerateFinish(c) /\ UNCHANGED <<dvars, lvars, hvars, cvars, mvars>>
SpecSelect == InitSelect /\ [][NextSelect]_vars

\* calculateConfidence over file maps of up to MaxSourceFiles + 4 files
InitConfidence == InitSelect
NextConfidence ==
    \E files \in FileMaps :
        ConfidenceOf(files) /\ UNCHANGED <<dvars, lvars, hvars, cvars, mvars>>
SpecConfidence == InitConfidence /\ [][NextConfidence]_vars

\* the self healer
InitHeal == HealInit /\ DeployQuiet /\ LedgerQuiet /\ GenQuiet /\ CodeGenQuiet /\ ManusQuiet
NextHeal ==
    \/ \E code \in HealCodes, language \in HealLanguages :
          HealStart(code, language) /\ UNCHANGED <<dvars, lvars, gvars, cvars, mvars>>
    \/ \E c \in DOMAIN hcalls, response \in HealResponses :
          RewriteSettles(c, FALSE, response) /\ UNCHANGED <<dvars, lvars, gvars, cvars, mvars>>
    \/ \E c \in DOMAIN hcalls :
          RewriteSettles(c, TRUE, <<>>) /\ UNCHANGED <<dvars, lvars, gvars, cvars, mvars>>
    \/ \E c \in DOMAIN hcalls : HealFinish(c) /\ UNCHANGED <<dvars, lvars, gvars, cvars, mvars>>
SpecHeal == InitHeal /\ [][NextHeal]_vars

\* the self healer, one call after another, over inputs and replacements
\* with up to eleven findings
InitValidate == InitHeal
NextValidate ==
    \/ \E code \in ValidateCodes, language \in HealLanguages :
          /\ hcalls = NoCalls /\ hseq < MaxValidates
          /\ HealStart(code, language)
          /\ UNCHANGED <<dvars, lvars, gvars, cvars, mvars>>
    \/ \E c \in DOMAIN hcalls, response \in ValidateResponses :
          RewriteSettles(c, FALSE, response) /\ UNCHANGED <<dvars, lvars, gvars, cvars, mvars>>
    \/ \E c \in DOMAIN hcalls :
          RewriteSettles(c, TRUE, <<>>) /\ UNCHANGED <<dvars, lvars, gvars, cvars, mvars>>
    \/ \E c \in DOMAIN hcalls : HealFinish(c) /\ UNCHANGED <<dvars, lvars, gvars, cvars, mvars>>
SpecValidate == InitValidate /\ [][NextValidate]_vars

\* the self healer, one call after another, over codes that match every
\* pattern and over language values other than the two usual ones
InitScan == InitHeal
NextScan ==
    \/ \E code \in ScanCodes, language \in ScanLanguages :
          /\ hcalls = NoCalls /\ hseq < MaxScans
          /\ HealStart(code, language)
          /\ UNCHANGED <<dvars, lvars, gvars, cvars, mvars>>
    \/ \E c \in DOMAIN hcalls, response \in ScanResponses :
          RewriteSettles(c, FALSE, response) /\ UNCHANGED <<dvars, lvars, gvars, cvars, mvars>>
    \/ \E c \in DOMAIN hcalls :
          RewriteSettles(c, TRUE, <<>>) /\ UNCHANGED <<dvars, lvars, gvars, cvars, mvars>>
    \/ \E c \in DOMAIN hcalls : HealFinish(c) /\ UNCHANGED <<dvars, lvars, gvars, cvars, mvars>>
SpecScan == InitScan /\ [][NextScan]_vars

\* the code generator
InitCodeGen == CodeGenInit /\ DeployQuiet /\ LedgerQuiet /\ GenQuiet /\ HealQuiet /\ ManusQuiet
NextCodeGen ==
    \/ \E req \in CodeGenRequests :
          CodeGenStart(req) /\ UNCHANGED <<dvars, lvars, gvars, hvars, mvars>>
    \/ \E c \in DOMAIN ccalls : AiAnswers(c) /\ UNCHANGED <<dvars, lvars, gvars, hvars, mvars>>
    \/ \E c \in DOMAIN ccalls : AiFails(c) /\ UNCHANGED <<dvars, lvars, gvars, hvars, mvars>>
    \/ \E c \in DOMAIN ccalls : CodeGenFinish(c) /\ UNCHANGED <<dvars, lvars, gvars, hvars, mvars>>
SpecCodeGen == InitCodeGen /\ [][NextCodeGen]_vars

\* the Manus integration
InitManusOnly == ManusInit /\ DeployQuiet /\ LedgerQuiet /\ GenQuiet /\ HealQuiet /\ CodeGenQuiet
NextManusOnly ==
    \/ \E op \in ManusOps :
          ManusStart(op, ManusArg) /\ UNCHANGED <<dvars, lvars, gvars, hvars, cvars>>
    \/ \E c \in DOMAIN mcalls, reply \in ManusReplies :
          ManusSettles(c, FALSE, reply) /\ UNCHANGED <<dvars, lvars, gvars, hvars, cvars>>
    \/ \E c \in DOMAIN mcalls, reply \in ManusReplies :
          ManusSettles(c, TRUE, reply) /\ UNCHANGED <<dvars, lvars, gvars, hvars, cvars>>

\* The operations that depend on the Manus service: the integration's three
\* methods and generateProject, one of the two objects per run.
InitManus == InitManusOnly \/ InitGen
NextManus ==
    \/ GenQuiet /\ NextManusOnly
    \/ ManusQuiet /\ NextGen
SpecManus == InitManus /\ [][NextManus]_vars

\* The four engines that keep a bounded store, one engine per run: an engine
\* takes a step only while the other three are at rest.
OnlyDeploy  == GenQuiet /\ HealQuiet /\ CodeGenQuiet
OnlyGen     == DeployQuiet /\ HealQuiet /\ CodeGenQuiet
OnlyHeal    == DeployQuiet /\ GenQuiet /\ CodeGenQuiet
OnlyCodeGen == DeployQuiet /\ GenQuiet /\ HealQuiet

InitStores == Init \/ InitGen \/ InitHeal \/ InitCodeGen
NextStores ==
    \/ OnlyDeploy /\ Next
    \/ OnlyGen /\ NextGen
    \/ OnlyHeal /\ NextHeal
    \/ OnlyCodeGen /\ NextCodeGen
SpecStores == InitStores /\ [][NextStores]_vars

-----------------------------------------------------------------------------
(* Properties of the deployment dispatcher                                 *)

\* C1: deploy never propagates an exception.  Every call that has ended has
\* returned a result, for every target and every outcome of the external
\* calls, and when an external call threw, the result has success = false and
\* its logs contain the exception's message.  A call in flight has not thrown.
C1_DeployNeverThrows ==
    /\ \A c \in DOMAIN dcalls : dcalls[c].ret = "pending"
    /\ dlast.id # 0 =>
          /\ dlast.ret = "returned"
          /\ dlast.res # NoResult
          /\ dlast.exc # "none" =>
                /\ ~dlast.res.success
                /\ Contains(dlast.res.logs, dlast.exc)
          /\ dlast.target = UnknownTarget =>
                /\ ~dlast.res.success
                /\ Contains(dlast.res.logs, UnknownTargetMsg)

\* a deploy whose HTTP request threw has returned
C1_Witness ==
    /\ dlast.ret = "returned"
    /\ dlast.exc \in ErrMsgs
    /\ dlast.fx = <<"fs", "git", "http">>

\* C2 (as claimed): every deploy call that ends, in success or in failure,
\* has added exactly one result to the store, under its own key, and the
\* number of stored results has grown by one unless the store was full.
C2_EveryCallStored ==
    [][dlast'.id # dlast.id =>
          /\ MapHas(deployments', DepId(dlast'.id))
          /\ ~MapHas(deployments, DepId(dlast'.id))
          /\ Len(deployments) < maxDeployments => Len(deployments') = Len(deployments) + 1
      ]_vars

\* C3: deploy to vercel with an empty Vercel token, and to github with an
\* empty GitHub token, returns success = false with logs containing
\* "not configured" and makes no external call at any point of the call.
NeedsMissingToken(call) ==
    \/ call.target = "vercel" /\ vercelToken = ""
    \/ call.target = "github" /\ githubToken = ""

C3_FailFastWithoutToken ==
    /\ \A c \in DOMAIN dcalls :
          NeedsMissingToken(dcalls[c]) => dcalls[c].fx = <<>> /\ dcalls[c].pc = "settle"
    /\ NeedsMissingToken(dlast) =>
          /\ dlast.ret = "returned"
          /\ ~dlast.res.success
          /\ Contains(dlast.res.logs, "not configured")
          /\ dlast.fx = <<>>
          /\ dlast.exc = "none"

\* a vercel deploy without a token has returned
C3_Witness ==
    /\ dlast.target = "vercel"
    /\ vercelToken = ""
    /\ dlast.ret = "returned"

\* the events of a call that has started and not yet returned
C18_Started(call) ==
    /\ Len(call.evts) = 1
    /\ call.evts[1] = [name |-> "deployment-started", id |-> DepId(call.id), at |-> 0]

\* the events of a call that has returned
C18_Ended(call) ==
    /\ Len(call.evts) = 2
    /\ call.evts[1] = [name |-> "deployment-started", id |-> DepId(call.id), at |-> 0]
    /\ call.evts[2].id = DepId(call.id)
    /\ call.evts[2].at = Len(call.fx)
    /\ call.evts[2].name \in {"deployment-success", "deployment-failed", "deployment-error"}
    /\ call.evts[2].name = "deployment-success" <=> call.res.success
    /\ call.evts[2].name = "deployment-failed" <=>
          (call.target \in Targets /\ ~call.res.success)
    /\ call.evts[2].name = "deployment-error" <=> call.target \notin Targets

\* C18: every deploy call emits the started event exactly once, before any
\* target procedure acts, and then exactly one of the success, failed or
\* error events before it returns, all with the call's deployment id:
\* success exactly when the returned result has success = true, failed
\* exactly when a target procedure returned success = false, error exactly
\* when the catch block of deploy handled an exception (an unknown target).
C18_DeployEvents ==
    /\ \A c \in DOMAIN dcalls : C18_Started(dcalls[c])
    /\ dlast.id # 0 => C18_Ended(dlast)

\* a deploy to vercel whose request failed emitted started, then failed
C18_Witness ==
    /\ dlast.target = "vercel"
    /\ dlast.exc \in ErrMsgs
    /\ dlast.ret = "returned"
    /\ dlast.evts[2].name = "deployment-failed"

\* what the claim says of the deploymentId field of a result
C25_ResultId(target, res) ==
    /\ res.deploymentId \in {ExtId, None}
    /\ res.deploymentId = ExtId =>
          (res.success /\ target \in {"vercel", "github", "docker"})
    /\ (target = "aws" \/ ~res.success) => res.deploymentId = None
    /\ \A n \in 1..dseq : res.deploymentId # DepId(n)
    /\ ~getDeployment(res.deploymentId).found

\* C25: the key under which deploy stores a result is the id generated at
\* the start of that call and carried by its events; the deploymentId field
\* of the returned result is the external id of the vercel, github or docker
\* response, or is absent (aws, every failure), and is never the store key,
\* so getDeployment with the returned result's deploymentId does not return
\* the stored record.
C25_KeyIsNotResultId ==
    /\ dlast.id # 0 =>
          /\ C25_ResultId(dlast.target, dlast.res)
          /\ dlast.target \in Targets =>
                /\ dins[Len(dins)] = DepId(dlast.id)
                /\ \A i \in DOMAIN dlast.evts : dlast.evts[i].id = DepId(dlast.id)
                /\ getDeployment(DepId(dlast.id)) = [found |-> TRUE, val |-> dlast.res]
    /\ \A i \in DOMAIN deployments :
          /\ deployments[i].key \in {DepId(n) : n \in 1..dseq}
          /\ deployments[i].val.deploymentId # deployments[i].key
          /\ ~getDeployment(deployments[i].val.deploymentId).found

\* a deploy to vercel that succeeded: stored under the call's id, returned
\* with the id of the response, which finds nothing
C25_Witness ==
    /\ dlast.ret = "returned"
    /\ dlast.target = "vercel"
    /\ dlast.res.success
    /\ dlast.res.deploymentId = ExtId
    /\ getDeployment(DepId(dlast.id)).found
    /\ ~getDeployment(dlast.res.deploymentId).found

\* the deploy calls made so far, in flight or ended
Deployed == {dcalls[c] : c \in DOMAIN dcalls} \cup (IF dlast.id # 0 THEN {dlast} ELSE {})

C29_Unchecked(call) ==
    /\ call.target \in {"docker", "aws"} =>
          /\ Len(call.fx) >= 1 /\ call.fx[1] = "fs"
          /\ ~Contains(call.res.logs, "not configured")
    /\ call.target = "aws" =>
          /\ call.fx = <<"fs">>
          /\ call.exc = "none" =>
                /\ call.res.success
                /\ call.res.url = "https://your-app.elasticbeanstalk.com"
                /\ call.res.deploymentId = None
          /\ call.exc # "none" => ~call.res.success

\* C29: the docker and aws targets never check a credential: deploy goes on
\* to write the scratch files whatever the tokens are, and for aws it makes
\* no external deployment call and returns success = true with the fixed
\* URL https://your-app.elasticbeanstalk.com and no deploymentId whenever
\* writing the scratch files does not throw.
C29_NoCredentialCheck == \A call \in Deployed : C29_Unchecked(call)

\* an aws deploy with both tokens empty that returned the fixed URL
C29_Witness ==
    /\ vercelToken = "" /\ githubToken = ""
    /\ dlast.ret = "returned"
    /\ dlast.target = "aws"
    /\ dlast.fx = <<"fs">>
    /\ dlast.res.success
    /\ dlast.res.url = "https://your-app.elasticbeanstalk.com"

\* a docker deploy with both tokens empty that ran the container
C29_WitnessDocker ==
    /\ vercelToken = "" /\ githubToken = ""
    /\ dlast.ret = "returned"
    /\ dlast.target = "docker"
    /\ dlast.fx = <<"fs", "docker build", "docker run">>
    /\ dlast.res.success

-----------------------------------------------------------------------------
(* Properties of the monetization ledger                                   *)

IsCall(op) == lastOp'.n # lastOp.n /\ lastOp'.op = op

\* C6: purchaseTemplate with an id that is not stored returns false and
\* changes neither the revenue nor any template; with a stored id it returns
\* true, adds 1 to that template's downloads and its price to the revenue,
\* and changes nothing else.
C6_Purchase ==
    [][IsCall("purchase") =>
          IF ~MapHas(templates, lastOp'.id)
          THEN /\ lastOp'.ret = FALSE
               /\ revenue' = revenue
               /\ templates' = templates
          ELSE LET old == MapGet(templates, lastOp'.id) IN
               /\ lastOp'.ret = TRUE
               /\ revenue' = revenue + old.price
               /\ MapKeys(templates') = MapKeys(templates)
               /\ MapGet(templates', lastOp'.id) =
                     [old EXCEPT !.downloads = old.downloads + 1]
               /\ \A k \in MapKeys(templates) \ {lastOp'.id} :
                     MapGet(templates', k) = MapGet(templates, k)
      ]_vars

\* a second purchase of a stored template has been counted
C6_Witness ==
    /\ lastOp.op = "purchase"
    /\ lastOp.ret = TRUE
    /\ MapGet(templates, lastOp.id).downloads = 2
    /\ revenue = 6

\* the purchases of a stored template since it was published are all counted
C17_Counted(id) ==
    LET template == MapGet(templates, id)
        h        == lsold[id]
    IN  /\ h.k = Len(h.buyers)
        /\ template.downloads = h.base + h.k
        /\ h.earned = h.k * template.price

\* C17: purchases are neither deduplicated nor lost: k purchaseTemplate calls
\* for the same published template, by the same or by different buyers and
\* however the calls are ordered among the other ledger calls, raise its
\* download count by exactly k and the revenue by exactly k times its price.
C17_EveryPurchaseCounts ==
    \A id \in TemplateIds : MapHas(templates, id) => C17_Counted(id)

\* one buyer bought a template twice and another buyer once: three
\* downloads and three times the price
C17_Witness ==
    /\ MapHas(templates, "t1")
    /\ lsold["t1"].buyers = <<"b1", "b1", "b2">>
    /\ MapGet(templates, "t1").price = 3
    /\ MapGet(templates, "t1").downloads = lsold["t1"].base + 3
    /\ lsold["t1"].earned = 9

\* C7 (as claimed): no ledger call lowers the revenue counter.
C7_RevenueMonotone == [][revenue' >= revenue]_vars

\* C8: publishTemplate returns true for every record; afterwards the ledger
\* maps the record's id to exactly that record, and the records under the
\* other ids are the ones stored before.
C8_Publish ==
    [][IsCall("publish") =>
          /\ lastOp'.ret = TRUE
          /\ MapHas(templates', lastOp'.template.id)
          /\ MapGet(templates', lastOp'.template.id) = lastOp'.template
          /\ MapKeys(templates') = MapKeys(templates) \cup {lastOp'.template.id}
          /\ \A k \in MapKeys(templates) \ {lastOp'.template.id} :
                MapGet(templates', k) = MapGet(templates, k)
      ]_vars

\* a record with downloads and a price replaced a purchased one
C8_Witness ==
    /\ lastOp.op = "publish"
    /\ lastOp.n >= 3
    /\ MapHas(templates, "t1") /\ MapHas(templates, "t2")
    /\ MapGet(templates, lastOp.id) = lastOp.template
    /\ revenue # 0

\* C30: publishTemplate leaves the revenue counter unchanged, and
\* publishing a record under an id that is already stored replaces the
\* stored download count with the published record's value: the downloads
\* accumulated by earlier purchases of that id are not carried over, while
\* the revenue from those purchases stays in the counter.
C30_RepublishResetsDownloads ==
    [][IsCall("publish") =>
          /\ revenue' = revenue
          /\ MapGet(templates', lastOp'.id).downloads = lastOp'.template.downloads
          /\ MapGet(templates', lastOp'.id).price = lastOp'.template.price
          /\ lsold[lastOp'.id].k > 0 =>
                /\ MapHas(templates, lastOp'.id)
                /\ MapGet(templates, lastOp'.id).downloads =
                      lsold[lastOp'.id].base + lsold[lastOp'.id].k
      ]_vars

\* "t1", the only id ever stored, bought twice at 3 and then published
\* again with downloads 0: the count is 0 and the revenue still 6
C30_Witness ==
    /\ lastOp.op = "publish"
    /\ lastOp.id = "t1"
    /\ lastOp.template.downloads = 0
    /\ MapKeys(templates) = {"t1"}
    /\ MapGet(templates, "t1").downloads = 0
    /\ revenue = 6

-----------------------------------------------------------------------------
(* Properties of the bounded stores                                        *)

\* a step that sets key `last` into store m of capacity max leaves the old
\* entries and the new one, less the oldest entry if max would be exceeded
InsertedInto(m, m2, ins, ins2, max) ==
    IF ins2 = ins THEN m2 = m
    ELSE /\ Len(ins2) = Len(ins) + 1
         /\ Len(m2) >= 1
         /\ m2[Len(m2)].key = ins2[Len(ins2)]
         /\ m2[Len(m2)].key \notin MapKeys(m)
         /\ SubSeq(m2, 1, Len(m2) - 1) = (IF Len(m) < max THEN m ELSE Tail(m))

LastKept(m, ins, max) ==
    Len(ins) = max + 1 =>
        /\ Len(m) = max
        /\ ~MapHas(m, ins[1])
        /\ \A i \in 2..(max + 1) : MapHas(m, ins[i])
        /\ \A i, j \in 1..(max + 1) : i # j => ins[i] # ins[j]

-----------------------------------------------------------------------------
(* Properties of the self healer                                           *)

\* C9: healCode on a string the scanner finds nothing in returns the input
\* as healed text, no findings, errorsFix 0 and confidence 1.0, and makes no
\* request to the rewrite collaborator; such a call is never left in flight.
C9_NothingToHeal ==
    /\ \A c \in DOMAIN hcalls : Scan(hcalls[c].code, hcalls[c].language) # <<>>
    /\ (hlast.id # 0 /\ Scan(hlast.code, hlast.language) = <<>>) =>
          /\ hlast.ret = "returned"
          /\ hlast.result.original = hlast.code
          /\ hlast.result.healed = hlast.code
          /\ hlast.result.errorsFound = <<>>
          /\ hlast.result.errorsFix = 0
          /\ hlast.result.confidence = 100
          /\ hlast.requests = 0

\* a type assertion healed as javascript: nothing found, returned as it was
C9_Witness ==
    /\ hlast.ret = "returned"
    /\ hlast.code = CodeCast
    /\ hlast.language = "javascript"
    /\ hlast.result.healed = CodeCast

\* what the claim says of one turn of the loop, on the finding old.idx, when
\* the rewrite call failed or answered with `response` (an empty response is
\* no replacement: the current string stands)
C19_Turn(old, new, failed, response) ==
    LET replaced == ~failed /\ response # <<>> /\ response # old.healed
    IN  /\ new.healed = (IF replaced THEN response ELSE old.healed)
        /\ new.fixedCount = old.fixedCount + (IF replaced THEN 1 ELSE 0)
        /\ new.errors = old.errors /\ new.code = old.code
        /\ IF old.idx < Len(old.errors)
           THEN new.pc = "fix" /\ new.idx = old.idx + 1
                   /\ new.requests = old.requests + 1
           ELSE new.pc = "validate" /\ new.idx = old.idx
                   /\ new.requests = old.requests

\* a call that is in the loop, and whose rewrite request settles in this step
C19_Turns(c) ==
    /\ c \in DOMAIN hcalls /\ c \in DOMAIN hcalls'
    /\ hcalls[c].pc = "fix"
    /\ hcalls'[c] # hcalls[c]

\* C19: when the scan yields findings, healCode takes them in scan order,
\* one rewrite request per finding; a replacement that differs from the
\* current string becomes the current string and errorsFix grows by 1; when
\* the request fails the finding is skipped, the current string and errorsFix
\* stay, and the next finding is taken.  The result carries the last current
\* string and the count, after one request for every finding.
C19_HealLoop ==
    /\ [][\A c \in 1..MaxHeals :
            C19_Turns(c) =>
               \E failed \in BOOLEAN, response \in HealResponses :
                  /\ failed => response = <<>>
                  /\ C19_Turn(hcalls[c], hcalls'[c], failed, response)]_vars
    /\ [](\A c \in DOMAIN hcalls :
            /\ hcalls[c].errors = Scan(hcalls[c].code, hcalls[c].language)
            /\ hcalls[c].pc = "fix" =>
                  /\ hcalls[c].idx \in 1..Len(hcalls[c].errors)
                  /\ hcalls[c].requests = hcalls[c].idx)
    /\ []((hlast.ret = "returned" /\ hlast.errors # <<>>) =>
            /\ hlast.requests = Len(hlast.errors)
            /\ hlast.result.healed = hlast.healed
            /\ hlast.result.errorsFix = hlast.fixedCount
            /\ hlast.result.errorsFound = hlast.errors
            /\ hlast.fixedCount <= Len(hlast.errors))

\* "var x = eval(y)" has two findings; both requests answered, first with
\* "eval(x)", then with "y = 1": two fixes, and the last answer is the result
C19_Witness ==
    /\ hlast.ret = "returned"
    /\ hlast.code = CodeVarEval
    /\ Len(hlast.errors) = 2
    /\ hlast.requests = 2
    /\ hlast.result.errorsFix = 2
    /\ hlast.result.healed = CodeClean

\* the same input when a request failed or left the string as it was: one fix
C19_WitnessSkipped ==
    /\ hlast.ret = "returned"
    /\ hlast.code = CodeVarEval
    /\ hlast.requests = 2
    /\ hlast.result.errorsFix = 1

\* a call waiting for the rewrite of finding idx, and what any answer to
\* that request leads to
C26_Waiting(call) ==
    /\ call.errors = Scan(call.code, call.language)
    /\ call.idx \in 1..Len(call.errors)
    /\ call.requests = call.idx
    /\ call.fixedCount < call.idx
    /\ \A failed \in BOOLEAN, response \in HealResponses \cup {call.healed} :
          LET next == AfterRewrite(call, failed, response)
          IN  /\ next.errors = call.errors
              /\ IF call.idx < Len(call.errors)
                 THEN next.pc = "fix" /\ next.idx = call.idx + 1
                         /\ next.requests = call.requests + 1
                 ELSE next.pc = "validate" /\ next.requests = call.requests
              /\ (failed \/ response \in {<<>>, call.healed}) =>
                    /\ next.healed = call.healed
                    /\ next.fixedCount = call.fixedCount

\* C26: healCode calls the rewrite collaborator exactly once for each
\* finding of the initial scan and does not rescan between rewrites, also
\* when an earlier rewrite already removed the finding; the result's
\* errorsFound is the initial scan's list, errorsFix never exceeds its
\* length, and a rewrite that returns an empty response or the current
\* string leaves the code unchanged and is not counted as a fix.
C26_OneRequestPerFinding ==
    /\ \A c \in DOMAIN hcalls :
          /\ hcalls[c].pc = "fix" => C26_Waiting(hcalls[c])
          /\ hcalls[c].pc = "validate" =>
                hcalls[c].requests = Len(Scan(hcalls[c].code, hcalls[c].language))
    /\ hlast.ret = "returned" =>
          /\ hlast.requests = Len(Scan(hlast.code, hlast.language))
          /\ hlast.result.errorsFound = Scan(hlast.code, hlast.language)
          /\ hlast.result.errorsFix <= Len(hlast.result.errorsFound)

\* "var x = eval(y)" after its first rewrite gave "y = 1", in which the
\* scanner finds nothing: the request for the second finding is out
C26_Witness ==
    \E c \in DOMAIN hcalls :
        /\ hcalls[c].pc = "fix"
        /\ hcalls[c].code = CodeVarEval
        /\ hcalls[c].healed = CodeClean
        /\ Scan(CodeClean, hcalls[c].language) = <<>>
        /\ hcalls[c].idx = 2
        /\ hcalls[c].requests = 2

\* "eval(x)" whose only rewrite changed nothing, returned with no fix
C26_WitnessNotCounted ==
    /\ hlast.ret = "returned"
    /\ hlast.code = CodeEval
    /\ hlast.requests = 1
    /\ hlast.result.healed = CodeEval
    /\ hlast.result.errorsFix = 0

\* a step in which a call ends at its scan, having found nothing
C27_EndsClean == hseq' = hseq + 1 /\ hlast' # hlast

\* a step in which call c, which found something, ends
C27_Ends(c) == c \in DOMAIN hcalls /\ c \notin DOMAIN hcalls'

\* C27: a healCode call whose scan finds nothing leaves the healing history
\* unchanged and emits healing-started and scan-complete but no
\* healing-complete; a call whose scan finds something adds exactly one new
\* history key, holding a list of exactly one result, the one it returns,
\* after emitting healing-complete.
C27_HistoryEffect ==
    /\ [][C27_EndsClean =>
            /\ hlast'.errors = <<>>
            /\ hlast'.evts = <<"healing-started", "scan-complete">>
            /\ healingHistory' = healingHistory]_vars
    /\ [][\A c \in 1..MaxHeals :
            C27_Ends(c) =>
               /\ hcalls[c].errors # <<>>
               /\ hcalls[c].evts = <<"healing-started", "scan-complete", "healing-complete">>
               /\ hlast'.evts = hcalls[c].evts
               /\ ~MapHas(healingHistory, HealId(c))
               /\ MapKeys(healingHistory') \ MapKeys(healingHistory) = {HealId(c)}
               /\ MapGet(healingHistory', HealId(c)) = <<hlast'.result>>]_vars
    /\ [](\A c \in DOMAIN hcalls :
            /\ hcalls[c].errors # <<>>
            /\ ~MapHas(healingHistory, HealId(c)))

\* a second call that found nothing, after a first that found something:
\* the history holds the first call's key with its one result and nothing
\* of the second
C27_Witness ==
    /\ hlast.ret = "returned"
    /\ hlast.id = 2
    /\ hlast.errors = <<>>
    /\ hlast.evts = <<"healing-started", "scan-complete">>
    /\ hcalls = NoCalls
    /\ MapKeys(healingHistory) = {HealId(1)}
    /\ Len(MapGet(healingHistory, HealId(1))) = 1

\* the confidence, in hundredths, the claim gives for r remaining findings
C20_Expected(r) ==
    CASE r = 0       -> 100
      [] r \in 1..9  -> 100 - 10 * r
      [] r >= 10     -> 0

C20_WitnessEight ==
    /\ hlast.ret = "returned"
    /\ hlast.language = "javascript"
    /\ hlast.result.healed = CodeMany
    /\ hlast.result.confidence = 20

-----------------------------------------------------------------------------
(* Properties of the scanner                                               *)

\* the healCode calls made so far, in flight or ended, each with the
\* findings of its initial scan
Scanned == {hcalls[c] : c \in DOMAIN hcalls} \cup (IF hlast.id # 0 THEN {hlast} ELSE {})

\* the five groups with the category and the severity the claim gives them
C21_Groups == <<
    [type |-> "syntax",      severity |-> "high",     patterns |-> SyntaxPatterns],
    [type |-> "type",        severity |-> "medium",   patterns |-> TypePatterns],
    [type |-> "logic",       severity |-> "high",     patterns |-> LogicPatterns],
    [type |-> "security",    severity |-> "critical", patterns |-> SecurityPatterns],
    [type |-> "performance", severity |-> "low",      patterns |-> PerformancePatterns]>>

\* the leftmost match of re in s, or the empty sequence when re matches
\* nowhere (no pattern matches the empty string)
C21_First(re, s) ==
    LET at == {p \in 1..Len(s) : MatchAt(re, 1, s, p) # 0}
    IN  IF at = {} THEN <<>>
        ELSE LET p == CHOOSE p \in at : \A q \in at : p <= q
             IN  SubSeq(s, p, MatchAt(re, 1, s, p) - 1)

C21_FirstTable ==
    [code \in ScanCodes |->
        [g \in 1..5 |->
            [k \in 1..Len(C21_Groups[g].patterns) |->
                C21_First(C21_Groups[g].patterns[k].regex, code)]]]

\* the groups scanCode runs for a language
C21_Runs(g, language) == C21_Groups[g].type # "type" \/ language = "typescript"

C21_OnePerPattern(call) ==
    LET F == call.errors
    IN  /\ \A g \in 1..5 : \A k \in 1..Len(C21_Groups[g].patterns) :
              LET pattern == C21_Groups[g].patterns[k]
                  first   == C21_FirstTable[call.code][g][k]
                  hits    == {i \in DOMAIN F : F[i].message = pattern.message}
              IN  IF C21_Runs(g, call.language) /\ first # <<>>
                  THEN /\ Cardinality(hits) = 1
                       /\ \A i \in hits :
                             F[i] = [type |-> C21_Groups[g].type,
                                     severity |-> C21_Groups[g].severity,
                                     message |-> pattern.message,
                                     code |-> first]
                  ELSE hits = {}
        /\ \A i \in DOMAIN F :
              \E g \in 1..5 : \E k \in 1..Len(C21_Groups[g].patterns) :
                  F[i].message = C21_Groups[g].patterns[k].message

C22_Order == <<
    "Nested braces detected", "Nested parentheses detected",
    "Missing semicolon", "Empty function parameters",
    "Use of \"any\" type detected", "Potentially undefined value",
    "Type assertion used - consider better typing",
    "Condition always true", "Condition always false",
    "Infinite loop detected", "Use === instead of ==",
    "Use const/let instead of var",
    "eval() is dangerous", "innerHTML can cause XSS",
    "dangerouslySetInnerHTML can cause XSS",
    "Ensure env vars are not exposed", "Hardcoded password detected",
    "Chain map and filter for better performance",
    "Consider using forEach or map",
    "JSON.stringify can be slow on large objects",
    "setTimeout with 0ms is inefficient">>

C22_Rank(finding) == CHOOSE i \in DOMAIN C22_Order : C22_Order[i] = finding.message

C22_GroupAt(i) ==
    CASE i \in 1..4   -> "syntax"
      [] i \in 5..7   -> "type"
      [] i \in 8..12  -> "logic"
      [] i \in 13..17 -> "security"
      [] i \in 18..21 -> "performance"

C22_Ordered(call) ==
    LET F == call.errors
    IN  /\ \A i \in DOMAIN F :
              /\ \E r \in DOMAIN C22_Order : C22_Order[r] = F[i].message
              /\ F[i].type = C22_GroupAt(C22_Rank(F[i]))
        /\ \A i, j \in DOMAIN F : i < j => C22_Rank(F[i]) < C22_Rank(F[j])
        /\ (\E i \in DOMAIN F : F[i].type = "type") => call.language = "typescript"

\* C22: the findings of scanCode come ordered by group as syntax, type,
\* logic, security, performance and within a group by the pattern's
\* position in the group's list; a finding of the type group is produced
\* only when the language is exactly "typescript", never for another value.
C22_GroupOrder == \A call \in Scanned : C22_Ordered(call)

\* a typescript scan with findings of four groups, the type group second
C22_Witness ==
    /\ hlast.ret = "returned"
    /\ hlast.code = CodeMany
    /\ hlast.language = "typescript"
    /\ Len(hlast.errors) = 11
    /\ hlast.errors[2].type = "syntax"
    /\ hlast.errors[3].type = "type"
    /\ hlast.errors[5].message = "Type assertion used - consider better typing"
    /\ hlast.errors[6].type = "logic"
    /\ hlast.errors[11].type = "security"

\* the same code scanned as "TypeScript": the type patterns match and give
\* no finding
C22_WitnessOtherLanguage ==
    /\ hlast.ret = "returned"
    /\ hlast.code = CodeMany
    /\ hlast.language = "TypeScript"
    /\ C21_FirstTable[CodeMany][2][1] # <<>>
    /\ Len(hlast.errors) = 8
    /\ hlast.errors[3].type = "logic"

-----------------------------------------------------------------------------
(* Properties of the project generator                                     *)

\* the score the claim gives, in hundredths, by the three conditions
C23_Table(many, readme, manifest) ==
    CASE ~many /\ ~readme /\ ~manifest -> 70
      [] ~many /\ readme  /\ ~manifest -> 75
      [] ~many /\ ~readme /\ manifest  -> 75
      [] ~many /\ readme  /\ manifest  -> 80
      [] many  /\ ~readme /\ ~manifest -> 85
      [] many  /\ readme  /\ ~manifest -> 90
      [] many  /\ ~readme /\ manifest  -> 90
      [] many  /\ readme  /\ manifest  -> 95

\* C23: the confidence score of a file set is 0.7, plus 0.15 if it has more
\* than 10 files, plus 0.05 if README.md is present, plus 0.05 if
\* package.json is present, capped at 1.0; for every file set it lies in
\* [0, 1].
C23_ConfidenceScore ==
    glast.pc = "confidence" =>
        LET files == glast.project.files
            names == {files[i] : i \in DOMAIN files}
        IN  /\ glast.project.confidence =
                  C23_Table(Cardinality(names) > 10, "README.md" \in names,
                            "package.json" \in names)
            /\ glast.project.confidence \in 0..100

\* twelve files with a readme and a manifest: 0.95
C23_Witness ==
    /\ glast.pc = "confidence"
    /\ Len(glast.project.files) = 12
    /\ Has(glast.project.files, "README.md")
    /\ Has(glast.project.files, "package.json")
    /\ glast.project.confidence = 95

\* exactly ten files, no readme: the bonus for the number is not given
C23_WitnessTen ==
    /\ glast.pc = "confidence"
    /\ Len(glast.project.files) = 10
    /\ ~Has(glast.project.files, "README.md")
    /\ glast.project.confidence = 75

\* the analysis did not come from the analysis service
FellBack(call) == call.pc # "http" /\ call.analysis.src \in {"local", "catch"}

\* C10 (as claimed): when the analysis request failed or the credentials are
\* missing, the analysis carries the local complexity estimate of the
\* requirement's feature count.
C10_FallbackIsLocalEstimate ==
    /\ \A c \in DOMAIN gcalls :
          FellBack(gcalls[c]) =>
              gcalls[c].analysis.complexity = estimateComplexity(gcalls[c].req.features)
    /\ (glast.id # 0 /\ FellBack(glast)) =>
          glast.analysis.complexity = estimateComplexity(glast.req.features)

\* the complexity the claim gives for a feature count
C11_Table(n) ==
    CASE n <= 3           -> "simple"
      [] n \in 4..8       -> "medium"
      [] n \in 9..15      -> "complex"
      [] n >= 16          -> "enterprise"

\* the seven counts the claim lists, with their complexities
C11_Listed == {<<0, "simple">>, <<3, "simple">>, <<4, "medium">>, <<8, "medium">>,
               <<9, "complex">>, <<15, "complex">>, <<16, "enterprise">>}

C11_Estimated(call) ==
    call.analysis.src = "local" =>
        /\ call.analysis.complexity = C11_Table(call.req.features)
        /\ \A l \in C11_Listed :
              call.req.features = l[1] => call.analysis.complexity = l[2]

\* C11: the local complexity estimate depends on the feature count only:
\* at most 3 gives simple, 4..8 medium, 9..15 complex, 16 or more enterprise;
\* in particular 0,3,4,8,9,15,16 give simple, simple, medium, medium, complex,
\* complex, enterprise, whatever the project type.
C11_EstimateThresholds ==
    /\ \A c \in DOMAIN gcalls : C11_Estimated(gcalls[c])
    /\ glast.id # 0 => C11_Estimated(glast)

\* a call with 16 features ended with the local estimate enterprise
C11_Witness ==
    /\ glast.ret = "returned"
    /\ glast.req.features = 16
    /\ glast.analysis.src = "local"
    /\ glast.analysis.complexity = "enterprise"

\* a call that has selected its tech stack
Selected(call) == call.pc \in {"files", "done"} /\ call.ret # "threw"

\* the first n elements of a list of the catalog, absent when the list is
C12_Prefix(list, n) ==
    IF list = Undefined THEN Undefined
    ELSE [i \in 1..(IF Len(list) < n THEN Len(list) ELSE n) |-> list[i]]

C12_Truncated(call) ==
    (/\ Selected(call)
     /\ call.analysis.complexity = "simple"
     /\ call.req.type \in ProjectTypes) =>
        LET entry == techStackTemplates[call.req.type]
            stack == call.project.techStack
        IN  /\ stack.frontend   = C12_Prefix(entry.frontend, 1)
            /\ stack.backend    = C12_Prefix(entry.backend, 1)
            /\ stack.database   = C12_Prefix(entry.database, 1)
            /\ stack.deployment = C12_Prefix(entry.deployment, 1)
            /\ stack.tools      = C12_Prefix(entry.tools, 2)
            /\ \A f \in {"frontend", "backend", "database", "deployment"} :
                  stack[f] # Undefined => Len(stack[f]) <= 1
            /\ stack.tools # Undefined => Len(stack.tools) <= 2

\* C12: for complexity simple and every project type, the selected stack's
\* frontend, backend, database and deployment are each the first element of
\* the catalog entry's list (length at most 1) and its tools are the first
\* two elements of the catalog entry's tools (length at most 2).
C12_SimpleTruncates ==
    /\ \A c \in DOMAIN gcalls : C12_Truncated(gcalls[c])
    /\ C12_Truncated(glast)

\* a simple website was generated: one frontend out of four, two tools out
\* of three
C12_Witness ==
    /\ glast.ret = "returned"
    /\ glast.req.type = "website"
    /\ glast.analysis.complexity = "simple"
    /\ glast.project.techStack.frontend = <<"React 19">>
    /\ glast.project.techStack.tools = <<"Tailwind CSS 4", "Vite">>

\* the calls of generateProject whose file map has been generated
WithFiles ==
    {gcalls[c] : c \in {c \in DOMAIN gcalls : gcalls[c].pc = "files"}}
        \cup (IF glast.pc = "done" /\ glast.ret = "returned" THEN {glast} ELSE {})

\* the source files the claim gives for a project type
C24_Sources(type) ==
    CASE type = "game"    -> {"src/game.ts", "src/scenes/MainScene.ts"}
      [] type = "website" -> {"src/App.tsx", "src/pages/Home.tsx"}
      [] type = "app"     -> {"src/App.tsx", "src/screens/HomeScreen.tsx"}
      [] type = "api"     -> {"src/server.ts", "src/routes/index.ts"}
      [] OTHER            -> {"src/index.ts"}

C24_FileSet(call) ==
    LET files == call.project.files
        names == {files[i] : i \in DOMAIN files}
        srcs  == names \ {"package.json", "README.md", "tsconfig.json", ".gitignore"}
    IN  /\ {"package.json", "README.md", "tsconfig.json", ".gitignore"} \subseteq names
        /\ srcs = C24_Sources(call.req.type)
        /\ Cardinality(srcs) =
              (IF call.req.type \in {"game", "website", "app", "api"} THEN 2 ELSE 1)
        /\ Len(files) = Cardinality(names)

\* C24: for every requirement the generated file set contains package.json,
\* README.md, tsconfig.json and .gitignore, plus exactly two source files
\* when the type is game, website, app or api and exactly one source file,
\* src/index.ts, for every other type, and no further files.
C24_GeneratedFiles == \A call \in WithFiles : C24_FileSet(call)

\* an api project returned with six files
C24_Witness ==
    /\ glast.ret = "returned"
    /\ glast.pc = "done"
    /\ glast.req.type = "api"
    /\ Len(glast.project.files) = 6
    /\ Has(glast.project.files, "src/routes/index.ts")

\* a cli project returned with five files
C24_WitnessOther ==
    /\ glast.ret = "returned"
    /\ glast.pc = "done"
    /\ glast.req.type = "cli"
    /\ Len(glast.project.files) = 5
    /\ Has(glast.project.files, "src/index.ts")

C28_Project(project) ==
    /\ project.confidence = 80
    /\ Len(project.files) \in {5, 6}
    /\ Has(project.files, "README.md")
    /\ Has(project.files, "package.json")

\* C28: every project returned by generateProject, and every project it
\* stored, has confidence exactly 0.8: its file set has 5 or 6 files and
\* contains README.md and package.json, so the bonus for more than 10 files
\* is never applied and both 0.05 bonuses always are, whatever the
\* requirement and the analysis.
C28_AlwaysPointEight ==
    /\ (glast.pc = "done" /\ glast.ret = "returned") => C28_Project(glast.project)
    /\ \A i \in DOMAIN generatedProjects : C28_Project(generatedProjects[i].val)

\* a game analysed as enterprise by the external service: six files, 0.8
C28_Witness ==
    /\ glast.pc = "done"
    /\ glast.ret = "returned"
    /\ glast.req.type = "game"
    /\ glast.analysis = ManusAnalysis("enterprise")
    /\ Len(glast.project.files) = 6
    /\ glast.project.confidence = 80
    /\ \E i \in DOMAIN generatedProjects : generatedProjects[i].val = glast.project

\* a blog of nine features analysed locally: five files, 0.8
C28_WitnessLocal ==
    /\ glast.pc = "done"
    /\ glast.ret = "returned"
    /\ glast.req = [type |-> "blog", features |-> 9]
    /\ glast.analysis = LocalAnalysis(glast.req)
    /\ Len(glast.project.files) = 5
    /\ glast.project.confidence = 80

\* the catalog entry the claim names for a project type
C13_Entry(type) ==
    IF type \in ProjectTypes THEN techStackTemplates[type]
    ELSE techStackTemplates["other"]

C13_Unmodified(call) ==
    (/\ Selected(call)
     /\ call.analysis.complexity \in {"enterprise", "medium", "complex"}) =>
        call.project.techStack = C13_Entry(call.req.type)

\* C13 (as claimed): for complexity enterprise, medium or complex the
\* selected stack equals the catalog entry of the project type with every
\* list unmodified, and for a project type that is not a key of the catalog
\* the entry used is the generic "other" entry.
C13_FullEntryOrOther ==
    /\ \A c \in DOMAIN gcalls : C13_Unmodified(gcalls[c])
    /\ C13_Unmodified(glast)

-----------------------------------------------------------------------------
(* Properties of concurrent requests on one store                          *)

\* Ids are given in the order the calls start, so two inserts in the other
\* order come from calls that were in flight at the same time: the later
\* call overtook the earlier one at a suspension point.
Overtaken(ins) == \E i, j \in DOMAIN ins : i < j /\ ins[i][2] > ins[j][2]

\* what the inserts ins, run one after another, leave in a store of capacity
\* cap: the keys inserted last, in order
SequentialKeys(ins, cap) ==
    IF Len(ins) <= cap THEN ins ELSE SubSeq(ins, Len(ins) - cap + 1, Len(ins))

KeysInOrder(store) == [i \in DOMAIN store |-> store[i].key]

C16_Raced(store, ins, cap) ==
    \/ Len(store) > cap
    \/ Len(store) < Len(SequentialKeys(ins, cap))

-----------------------------------------------------------------------------
(* Properties of the entry points together                                 *)

\* C14 (as claimed): every public entry point (deploy, generateProject,
\* healCode, generateProjectCode, the methods of the Manus integration)
\* turns a failure of its own external call into a failure result or a
\* fallback value: no call ends by throwing to its caller.
C14_NothingPropagates ==
    /\ dlast.ret # "threw"
    /\ glast.ret # "threw"
    /\ hlast.ret # "threw"
    /\ clast.ret # "threw"
    /\ mlast.ret # "threw"

-----------------------------------------------------------------------------
(* Properties of the Manus-dependent operations                            *)

\* an ended call of the integration did not use an answer of the service
C15_NoAnswer(call) ==
    call.pc = "done" /\ (~ManusReady \/ call.failed)

C15_Fallback(call) ==
    C15_NoAnswer(call) =>
        /\ call.ret = "returned"
        /\ call.op = "research" => call.val.text = ""
        /\ call.op = "optimize" => call.val.text = call.arg
        /\ call.op = "getBestPractices" => call.val.list = <<>>
        /\ ~ManusReady => ~call.requested

\* C15: when the Manus URL or key is absent, or the Manus call fails, each
\* operation degrades to its local fallback without throwing: research
\* returns the empty string, optimize its input code, getBestPractices the
\* empty list; with absent credentials no request is made, by the three
\* methods and by generateProject, whose analysis is then the local one.
C15_ManusDegrades ==
    /\ C15_Fallback(mlast)
    /\ ~ManusReady => mcalls = NoCalls
    /\ ~ManusConfigured =>
          /\ \A c \in DOMAIN gcalls :
                gcalls[c].pc # "http" /\ gcalls[c].analysis.src = "local"
          /\ glast.id # 0 => glast.analysis.src = "local" /\ glast.ret = "returned"

\* an optimize call whose request failed returned its input code
C15_Witness ==
    /\ mlast.op = "optimize"
    /\ mlast.requested /\ mlast.failed
    /\ mlast.ret = "returned"
    /\ mlast.val.text = ManusArg

\* generateProject ended without credentials, on the local analysis
C15_WitnessLocal ==
    /\ ~ManusConfigured
    /\ glast.ret = "returned"
    /\ glast.analysis.src = "local"

=============================================================================
